---- MODULE Spec2Model ----
(***************************************************************************)
(* Model of the query-to-execution pipeline of excel-ai-engine:            *)
(*   LLMService.validate_and_enhance_code   (app/services/llm_service.py)  *)
(*   ExcelService.execute_query_code        (app/services/excel_service.py)*)
(*   ExcelService._process_result           (app/services/excel_service.py)*)
(*   query_excel / export_result            (app/api/routes.py)            *)
(*   BatchProcessor.process_batch / execute_pipeline                       *)
(*                                          (app/services/batch_processor) *)
(*                                                                         *)
(* Source text is a sequence of one-character strings, so that substring   *)
(* search, lower-casing, line splitting and stripping are computed the way *)
(* the Python code computes them.                                          *)
(***************************************************************************)
EXTENDS Integers, Sequences, FiniteSets, TLC

VARIABLES
    src_text,   \* validator input: the generated source text (chars)
    vres,       \* outcome of validate_and_enhance_code(src_text), or NoValue
    nres,       \* normalizer input: the value bound to `result`
    nenv,       \* envelope returned by _process_result(nres, ...), or NoValue
    tbl,        \* executor: the caller's Table (the DataFrame object passed in)
    lib,        \* executor: state of the library module objects (pd, np) that
                \*   every namespace holds a handle to
    last,       \* executor: the invocation of execute_query_code that has
                \*   just returned (inputs and outcome), or NoValue
    again,      \* executor: a second invocation with the same code on the
                \*   same Table, or NoValue
    run,        \* request paths: the handler in progress (its position, its
                \*   Table, its queries, the results recorded so far)
    calls,      \* request paths: the service calls made for the query being
                \*   handled, in order
    jin,        \* join planner: the two Tables given to it, or NoValue
    jout,       \* join planner: the call made on them and its outcome, or
                \*   NoValue
    gin,        \* code generation: the backend in use and how the backend
                \*   answers each request sent to it, or NoValue
    gout,       \* code generation: what generate_pandas_code returned and
                \*   the number of requests it sent, or NoValue
    history,    \* history log: self.history of each QueryHistory instance
    history_file, \* history log: the content of data/query_history.json
    hlast,      \* history log: the operation that has just returned, its
                \*   arguments and what it returned, or NoValue
    issued      \* history log: the identifiers add_query has returned and
                \*   those removed by delete_query or clear_history

vvars == << src_text, vres >>
nvars == << nres, nenv >>
xvars == << tbl, lib, last, again >>
pvars == << run, calls >>
jvars == << jin, jout >>
gvars == << gin, gout >>
hvars == << history, history_file, hlast, issued >>
vars == << src_text, vres, nres, nenv, tbl, lib, last, again, run, calls,
          jin, jout, gin, gout,
          history, history_file, hlast, issued >>

\* the absent value of a record-valued variable
NoValue == [none |-> TRUE]

\* the components a specification does not exercise stay idle
ValidatorIdle  == src_text = << >> /\ vres = NoValue
NormalizerIdle == nres = NoValue /\ nenv = NoValue
ExecutorIdle   == tbl = NoValue /\ lib = NoValue /\ last = NoValue /\ again = NoValue
PipelineIdle   == run = NoValue /\ calls = << >>
JoinIdle       == jin = NoValue /\ jout = NoValue
GeneratorIdle  == gin = NoValue /\ gout = NoValue
HistoryIdle    == history = NoValue /\ history_file = NoValue /\ hlast = NoValue /\ issued = NoValue

(***************************************************************************)
(* Python string primitives                                                *)
(***************************************************************************)
Min(S) == CHOOSE x \in S : \A y \in S : x <= y
Max(S) == CHOOSE x \in S : \A y \in S : x >= y

UpperToLower ==
    ("A" :> "a") @@ ("B" :> "b") @@ ("C" :> "c") @@ ("D" :> "d") @@
    ("E" :> "e") @@ ("F" :> "f") @@ ("G" :> "g") @@ ("H" :> "h") @@
    ("I" :> "i") @@ ("J" :> "j") @@ ("K" :> "k") @@ ("L" :> "l") @@
    ("M" :> "m") @@ ("N" :> "n") @@ ("O" :> "o") @@ ("P" :> "p") @@
    ("Q" :> "q") @@ ("R" :> "r") @@ ("S" :> "s") @@ ("T" :> "t") @@
    ("U" :> "u") @@ ("V" :> "v") @@ ("W" :> "w") @@ ("X" :> "x") @@
    ("Y" :> "y") @@ ("Z" :> "z")

\* str.lower() on one ASCII character
LowerChar(c) == IF c \in DOMAIN UpperToLower THEN UpperToLower[c] ELSE c

\* str.lower()
lower(s) == [i \in 1..Len(s) |-> LowerChar(s[i])]

\* Python `t in s` for strings: t occurs in s as a contiguous substring
Contains(s, t) ==
    \E i \in 0..(Len(s) - Len(t)) : \A k \in 1..Len(t) : s[i + k] = t[k]

\* str.startswith
startswith(s, p) == Len(s) >= Len(p) /\ SubSeq(s, 1, Len(p)) = p

Whitespace == {" ", "\t", "\n", "\r"}

\* str.strip()
strip(s) ==
    LET keep == {i \in 1..Len(s) : s[i] \notin Whitespace}
    IN  IF keep = {} THEN << >> ELSE SubSeq(s, Min(keep), Max(keep))

\* str.split('\n'): the lines of s from position i on, the separators removed
RECURSIVE SplitFrom(_, _)
SplitFrom(s, i) ==
    LET breaks == {j \in i..Len(s) : s[j] = "\n"}
    IN  IF breaks = {} THEN << SubSeq(s, i, Len(s)) >>
        ELSE << SubSeq(s, i, Min(breaks) - 1) >> \o SplitFrom(s, Min(breaks) + 1)

split(s) == SplitFrom(s, 1)

(***************************************************************************)
(* LLMService.validate_and_enhance_code                                    *)
(***************************************************************************)
forbidden_keywords ==
    << <<"e","v","a","l">>,
       <<"e","x","e","c">>,
       <<"c","o","m","p","i","l","e">>,
       <<"_","_","i","m","p","o","r","t","_","_">>,
       <<"o","p","e","n">>,
       <<"f","i","l","e">>,
       <<"i","n","p","u","t">>,
       <<"o","s",".">>,
       <<"s","y","s",".">>,
       <<"s","u","b","p","r","o","c","e","s","s">>,
       <<"s","o","c","k","e","t">>,
       <<"r","e","q","u","e","s","t","s">>,
       <<"u","r","l","l","i","b">>,
       <<"p","i","c","k","l","e">>,
       <<"s","h","e","l","v","e">>,
       <<"m","a","r","s","h","a","l">> >>

allowed_imports ==
    << <<"i","m","p","o","r","t"," ","p","a","n","d","a","s"," ","a","s"," ","p","d">>,
       <<"i","m","p","o","r","t"," ","n","u","m","p","y"," ","a","s"," ","n","p">>,
       <<"f","r","o","m"," ","d","a","t","e","t","i","m","e"," ","i","m","p","o","r","t">> >>

kw_import == <<"i","m","p","o","r","t"," ">>
kw_from   == <<"f","r","o","m"," ">>
kw_result == <<"r","e","s","u","l","t">>
kw_result_eq == <<"r","e","s","u","l","t"," ","=">>

\* raise ValueError(...): the rule violated and what the message quotes
Raise(rule, what) ==
    [raised |-> TRUE, error |-> rule, detail |-> what, returned |-> << >>]

\* return code
Return(code) ==
    [raised |-> FALSE, error |-> "none", detail |-> << >>, returned |-> code]

\* line 398-399: an import / from-import line naming no allowed import
UnauthorizedLine(line) ==
    /\ LET stripped == strip(line)
       IN  startswith(stripped, kw_import) \/ startswith(stripped, kw_from)
    /\ ~ \E a \in 1..Len(allowed_imports) : Contains(line, allowed_imports[a])

\* mutant: the import lines are tested before the keyword scan
ValidateImportsFirst(code, scanned) ==
    LET hits  == {k \in 1..Len(forbidden_keywords) :
                     Contains(scanned, lower(forbidden_keywords[k]))}
        lines == split(code)
        bad   == {j \in 1..Len(lines) : UnauthorizedLine(lines[j])}
    IN  IF bad # {}
          THEN Raise("Unauthorized import", lines[Min(bad)])
        ELSE IF hits # {}
          THEN Raise("Forbidden operation", forbidden_keywords[Min(hits)])
        ELSE IF ~ Contains(code, kw_result) /\ ~ Contains(code, kw_result_eq)
          THEN Raise("Missing result", << >>)
        ELSE Return(code)

\* The three rules in the order of the code; `scanned` is the text the
\* keyword loop searches (code_lower in the source).
ValidateScanning(code, scanned) ==
    LET hits  == {k \in 1..Len(forbidden_keywords) :
                     Contains(scanned, lower(forbidden_keywords[k]))}
        lines == split(code)
        bad   == {j \in 1..Len(lines) : UnauthorizedLine(lines[j])}
    IN  IF hits # {}
          THEN Raise("Forbidden operation", forbidden_keywords[Min(hits)])
        ELSE IF bad # {}
          THEN Raise("Unauthorized import", lines[Min(bad)])
        ELSE IF ~ Contains(code, kw_result) /\ ~ Contains(code, kw_result_eq)
          THEN Raise("Missing result", << >>)
        ELSE Return(code)

\* mutant: the scan forgets to lower-case the text
validate_case_sensitive(code) == ValidateScanning(code, code)

validate_and_enhance_code(code) == ValidateScanning(code, lower(code))

(***************************************************************************)
(* Validator inputs: generated source texts, prefix \o middle \o suffix    *)
(***************************************************************************)
Prefixes ==
    { << >>,
      <<"r","e","s","u","l","t"," ","="," ">>,
      <<"d","f","[","'">>,
      <<"#"," ">>,
      <<"x"," ","="," ","'">>,
      <<"i","m","p","o","r","t"," ">>,
      <<"e">>,
      <<" "," ","f","r","o","m"," ">> }

Middles ==
    { <<"e","v","a","l">>,
      <<"E","X","E","C">>,
      <<"C","o","m","p","i","l","e">>,
      <<"_","_","i","m","p","o","r","t","_","_">>,
      <<"O","P","E","N">>,
      <<"f","i","l","e">>,
      <<"I","n","p","u","t">>,
      <<"o","s",".">>,
      <<"S","Y","S",".">>,
      <<"s","u","b","p","r","o","c","e","s","s">>,
      <<"S","o","c","k","e","t">>,
      <<"r","e","q","u","e","s","t","s">>,
      <<"U","R","L","L","I","B">>,
      <<"p","i","c","k","l","e">>,
      <<"S","h","e","l","v","e">>,
      <<"m","a","r","s","h","a","l">>,
      <<"v","a","l","(","1",")">>,
      <<"j","s","o","n">>,
      <<"p","a","n","d","a","s"," ","a","s"," ","p","d">>,
      <<"d","f",".","m","e","a","n","(",")">>,
      <<"o","s">>,
      <<"d","a","t","e","t","i","m","e"," ","i","m","p","o","r","t"," ","d","a","t","e">> }

Suffixes ==
    { << >>,
      <<"'","]">>,
      <<"(","'","x","'",")">>,
      <<"\n","r","e","s","u","l","t"," ","="," ","1">>,
      <<"\n","i","m","p","o","r","t"," ","n","u","m","p","y"," ","a","s"," ","n","p">>,
      <<"\n","\t","f","r","o","m"," ","s","y","s"," ","i","m","p","o","r","t"," ","p","a","t","h">> }

(***************************************************************************)
(* Import lines: generated texts whose first line is built from import     *)
(* clauses, so that the modules the line imports are known.                *)
(***************************************************************************)
\* [text, module, list]: an import clause, the module it imports, and
\* whether it is of the form `import a` that `, b` can extend
ImportClauses ==
    { [text |-> <<"i","m","p","o","r","t"," ","p","a","n","d","a","s"," ","a","s"," ","p","d">>,
       module |-> "pandas", list |-> TRUE],
      [text |-> <<"i","m","p","o","r","t"," ","n","u","m","p","y"," ","a","s"," ","n","p">>,
       module |-> "numpy", list |-> TRUE],
      [text |-> <<"f","r","o","m"," ","d","a","t","e","t","i","m","e"," ","i","m","p","o","r","t"," ","d","a","t","e","t","i","m","e">>,
       module |-> "datetime", list |-> FALSE],
      [text |-> <<"i","m","p","o","r","t"," ","p","a","n","d","a","s">>,
       module |-> "pandas", list |-> TRUE],
      [text |-> <<"i","m","p","o","r","t"," ","d","a","t","e","t","i","m","e">>,
       module |-> "datetime", list |-> TRUE],
      [text |-> <<"i","m","p","o","r","t"," ","j","s","o","n">>,
       module |-> "json", list |-> TRUE],
      [text |-> <<"f","r","o","m"," ","j","s","o","n"," ","i","m","p","o","r","t"," ","l","o","a","d","s">>,
       module |-> "json", list |-> FALSE] }

ModuleNames == {"pandas", "numpy", "datetime", "json"}

ModuleText(m) ==
    CASE m = "pandas" -> <<"p","a","n","d","a","s">>
      [] m = "numpy" -> <<"n","u","m","p","y">>
      [] m = "datetime" -> <<"d","a","t","e","t","i","m","e">>
      [] m = "json" -> <<"j","s","o","n">>

\* the first line of a text: one clause; two clauses as two statements
\* `a; b`; a clause extended to `import a, m`; a clause followed by a
\* comment that quotes another clause.  `modules` is what the line imports.
ImportLines ==
    {[text |-> c.text, modules |-> {c.module}] : c \in ImportClauses}
    \cup {[text |-> c.text \o <<";"," ">> \o d.text,
           modules |-> {c.module, d.module}] :
             c \in ImportClauses, d \in ImportClauses}
    \cup {[text |-> c.text \o <<","," ">> \o ModuleText(m),
           modules |-> {c.module, m}] :
             c \in {x \in ImportClauses : x.list}, m \in ModuleNames}
    \cup {[text |-> c.text \o <<" "," ","#"," ">> \o d.text,
           modules |-> {c.module}] :
             c \in ImportClauses, d \in ImportClauses}

Indents == {<< >>, <<" "," ">>}

\* the line after the import line: an assignment to result, or a statement
\* that does not mention result
Tails ==
    { <<"\n","r","e","s","u","l","t"," ","="," ","1">>,
      <<"\n","x"," ","="," ","1">> }

\* the import line, indented or not, followed by one more line
ImportTexts ==
    {ind \o l.text \o t : ind \in Indents, l \in ImportLines, t \in Tails}

SourceTexts ==
    {p \o m \o s : p \in Prefixes, m \in Middles, s \in Suffixes}
    \cup ImportTexts

(***************************************************************************)
(* SpecValidate: validate applied to every source text                     *)
(***************************************************************************)
InitValidate ==
    /\ src_text \in SourceTexts
    /\ vres = NoValue
    /\ NormalizerIdle
    /\ ExecutorIdle
    /\ PipelineIdle
    /\ JoinIdle
    /\ GeneratorIdle
    /\ HistoryIdle

Validate ==
    /\ vres = NoValue
    /\ vres' = validate_and_enhance_code(src_text)
    /\ UNCHANGED << src_text, nvars, xvars, pvars, jvars, gvars, hvars >>

NextValidate == Validate

SpecValidate == InitValidate /\ [][NextValidate]_vars

(***************************************************************************)
(* Tables (pandas.DataFrame), cells and Python values                      *)
(*                                                                         *)
(* A cell is a record: Num(n) an integer, Flt(n) the finite float n + 1/2, *)
(* PosInf / NegInf / NaN the non-finite floats, None the null marker,      *)
(* Str(s) a string.  A table is its ordered column names and its ordered   *)
(* rows, each row one cell per column.                                     *)
(***************************************************************************)
Num(n) == [num |-> n]
Flt(n) == [flt |-> n]
Str(s) == [str |-> s]
PosInf == [special |-> "inf"]
NegInf == [special |-> "-inf"]
NaN    == [special |-> "nan"]
None   == [special |-> "None"]

IsNum(c) == DOMAIN c = {"num"}
IsFloatCell(c) == DOMAIN c = {"flt"} \/ c \in {PosInf, NegInf, NaN}

\* pd.notna on one cell
notna(c) == c \notin {NaN, None}

Range(f) == {f[i] : i \in DOMAIN f}

\* the dtype pandas gives column j of the rows: int64 when every cell is an
\* integer, float64 when every cell is a number (finite or not), else object
Dtype(rows, j) ==
    IF \A i \in 1..Len(rows) : IsNum(rows[i][j]) THEN "int64"
    ELSE IF \A i \in 1..Len(rows) : IsNum(rows[i][j]) \/ IsFloatCell(rows[i][j])
      THEN "float64"
    ELSE "object"

\* every table with the given columns, cells and at most maxRows rows
AllTables(columns, cells, maxRows) ==
    { [columns |-> columns, rows |-> r] :
        r \in UNION { [1..n -> [1..Len(columns) -> cells]] : n \in 0..maxRows } }

(***************************************************************************)
(* ExcelService._process_result                                            *)
(***************************************************************************)
max_result_rows == 10000

\* number of columns of the rows
Width(rows) == IF Len(rows) = 0 THEN 0 ELSE Len(rows[1])

\* result.replace([float('inf'), float('-inf')], None), the cells: a matching
\* cell becomes None
replace_inf(rows) ==
    [i \in 1..Len(rows) |->
        [j \in 1..Len(rows[i]) |->
            IF rows[i][j] \in {PosInf, NegInf} THEN None ELSE rows[i][j]]]

\* result.replace([float('inf'), float('-inf')], None), the dtypes: pandas
\* holds the float64 columns of a frame in one block and casts the block to
\* object when it replaces a match in it by None; a block without a match,
\* and an int64 block, which cannot hold an infinity, is left as it is
dtypes_after_replace(rows) ==
    LET dts   == [j \in 1..Width(rows) |-> Dtype(rows, j)]
        match == \E j \in 1..Width(rows) :
                    /\ dts[j] = "float64"
                    /\ \E i \in 1..Len(rows) : rows[i][j] \in {PosInf, NegInf}
    IN  [j \in 1..Width(rows) |->
            IF dts[j] = "float64" /\ match THEN "object" ELSE dts[j]]

\* result.where(pd.notna(result), None): a missing cell takes the fill value
\* None in an object block; in a float64 block pandas standardises the fill
\* value None to the block's own missing value, NaN
where_notna(rows, dts) ==
    [i \in 1..Len(rows) |->
        [j \in 1..Len(rows[i]) |->
            IF notna(rows[i][j]) THEN rows[i][j]
            ELSE IF dts[j] = "object" THEN None ELSE NaN]]

\* lines 146-147 and 169-170
replace_non_finite(rows) ==
    where_notna(replace_inf(rows), dtypes_after_replace(rows))

\* DataFrame.head(n)
head(rows, n) == SubSeq(rows, 1, IF Len(rows) < n THEN Len(rows) ELSE n)

\* mutant: the cap is applied from max_result_rows rows on
limit_rows_at_cap(rows) ==
    IF Len(rows) >= max_result_rows
      THEN [rows |-> head(rows, max_result_rows), truncated |-> TRUE]
      ELSE [rows |-> rows, truncated |-> FALSE]

\* lines 150-154
limit_rows(rows) ==
    IF Len(rows) > max_result_rows
      THEN [rows |-> head(rows, max_result_rows), truncated |-> TRUE]
      ELSE [rows |-> rows, truncated |-> FALSE]

\* DataFrame.to_dict(orient='records'): one mapping column name -> cell per row
to_dict_records(columns, rows) ==
    [i \in 1..Len(rows) |->
        [c \in Range(columns) |->
            rows[i][Max({j \in 1..Len(columns) : columns[j] = c})]]]

\* Series.to_dict() of a series with the default index 0..n-1
to_dict_series(values) == [k \in 0..(Len(values) - 1) |-> values[k + 1]]

\* isinstance(result, (int, float, str, bool)): the builtin types and the
\* library types that subclass them (numpy.float64 subclasses float;
\* numpy.int64, numpy.int32, numpy.float32 and numpy.bool_ subclass none)
IsPlainScalar(pytype) == pytype \in {"int", "float", "str", "bool", "float64"}

\* isinstance(result, float)
IsFloat(pytype) == pytype \in {"float", "float64"}

NoError == << >>

\* the value of an object whose __str__ does not return a string
Unprintable == [raises |-> "TypeError"]

\* str(result) raises
StrRaises(result) == result.val = Unprintable

\* the outcome of a call that raised: the error leaves the function
Propagated(exc) == [raised |-> exc]

_process_result(result, modified_df) ==
    IF result.kind = "DataFrame" THEN
        LET cleaned == replace_non_finite(result.table.rows)
            lim     == limit_rows(cleaned)
        IN  [success     |-> TRUE,
             result      |-> [records |-> to_dict_records(result.table.columns, lim.rows)],
             result_type |-> "dataframe",
             shape       |-> << Len(lim.rows), Len(result.table.columns) >>,
             columns     |-> result.table.columns,
             truncated   |-> lim.truncated,
             error       |-> NoError]
    ELSE IF result.kind = "Series" THEN
        LET asrows  == [i \in 1..Len(result.values) |-> << result.values[i] >>]
            cleaned == replace_non_finite(asrows)
            values  == [i \in 1..Len(cleaned) |-> cleaned[i][1]]
        IN  [success     |-> TRUE,
             result      |-> [mapping |-> to_dict_series(values)],
             result_type |-> "series",
             shape       |-> << Len(values) >>,
             error       |-> NoError]
    ELSE IF result.kind = "object" /\ IsPlainScalar(result.pytype) THEN
        [success     |-> TRUE,
         result      |-> IF IsFloat(result.pytype)
                            /\ result.val \in {NaN, PosInf, NegInf}
                         THEN None ELSE result.val,
         result_type |-> "scalar",
         value_type  |-> result.pytype,
         error       |-> NoError]
    ELSE IF result.kind = "dict" THEN
        [success     |-> TRUE,
         result      |-> [dict |-> result.items],
         result_type |-> "dict",
         error       |-> NoError]
    ELSE IF result.kind = "list" THEN
        [success     |-> TRUE,
         result      |-> [list |-> result.items],
         result_type |-> "list",
         length      |-> Len(result.items),
         error       |-> NoError]
    ELSE IF StrRaises(result) THEN Propagated("TypeError")
    ELSE
        [success       |-> TRUE,
         result        |-> [text |-> result.val],
         result_type   |-> "other",
         original_type |-> result.pytype,
         error         |-> NoError]

(***************************************************************************)
(* Normalizer inputs: the values generated code can bind to `result`       *)
(***************************************************************************)
MaxRows == 2

NormCells == {Num(1), PosInf, NegInf, NaN, Str("x")}

DataFrameValue(t) == [kind |-> "DataFrame", table |-> t]
SeriesValue(v)    == [kind |-> "Series", values |-> v]
PyObject(ty, v)   == [kind |-> "object", pytype |-> ty, val |-> v]

SmallFrames ==
    {DataFrameValue(t) : t \in AllTables(<< "a", "b" >>, NormCells, MaxRows)}

\* one-column tables around the row cap; row i holds the integer i
LongTable(n) == [columns |-> << "n" >>, rows |-> [i \in 1..n |-> << Num(i) >>]]

LongFrames ==
    {DataFrameValue(LongTable(n)) :
        n \in {max_result_rows - 1, max_result_rows, max_result_rows + 1,
               max_result_rows + MaxRows + 1}}

SeriesValues ==
    {SeriesValue(v) : v \in UNION {[1..n -> NormCells] : n \in 0..MaxRows}}

\* type(result).__name__ of the numeric results
PlainNumericTypes == {"int", "float"}
LibraryNumericTypes == {"int64", "int32", "float64", "float32"}

ScalarValues ==
    {PyObject(ty, v) : ty \in {"int", "int64", "int32"}, v \in {Num(0), Num(3)}}
    \cup {PyObject(ty, v) : ty \in {"float", "float64", "float32"},
                            v \in {Flt(1), NaN, PosInf, NegInf}}
    \cup {PyObject("str", Str("x")), PyObject("bool", Str("True")),
          PyObject("bool_", Str("True"))}

OtherValues ==
    {PyObject("Timestamp", Str("2024-01-01 00:00:00")),
     PyObject("ndarray", Str("[1 2]")),
     PyObject("NoneType", Str("None")),
     PyObject("U", Unprintable),
     [kind |-> "dict", items |-> << NaN >>],
     [kind |-> "dict", items |-> << >>],
     [kind |-> "list", items |-> << Num(1), PosInf >>],
     [kind |-> "list", items |-> << DataFrameValue(LongTable(1)) >>],
     [kind |-> "list", items |-> << >>]}

ResultValues ==
    SmallFrames \cup LongFrames \cup SeriesValues \cup ScalarValues \cup OtherValues

(***************************************************************************)
(* SpecNormalize: _process_result applied to every result value            *)
(***************************************************************************)
InitNormalize ==
    /\ nres \in ResultValues
    /\ nenv = NoValue
    /\ ValidatorIdle
    /\ ExecutorIdle
    /\ PipelineIdle
    /\ JoinIdle
    /\ GeneratorIdle
    /\ HistoryIdle

Normalize ==
    /\ nenv = NoValue
    /\ nenv' = _process_result(nres, nres)
    /\ UNCHANGED << vvars, nres, xvars, pvars, jvars, gvars, hvars >>

NextNormalize == Normalize

SpecNormalize == InitNormalize /\ [][NextNormalize]_vars

(***************************************************************************)
(* Generated code: a program is a sequence of statements, one per line.    *)
(* Each statement has its source text (what validate reads) and its effect *)
(* on the namespace (what exec does).                                      *)
(***************************************************************************)
StmtText(s) ==
    CASE s = "add_col" ->
        \* df['b'] = 1
        <<"d","f","[","'","b","'","]"," ","="," ","1">>
      [] s = "drop_first" ->
        \* df.drop(df.index[:1], inplace=True)
        <<"d","f",".","d","r","o","p","(","d","f",".","i","n","d","e","x","[",":","1","]",","," ","i","n","p","l","a","c","e","=","T","r","u","e",")">>
      [] s = "set_cell" ->
        \* df.iloc[0, 0] = 9
        <<"d","f",".","i","l","o","c","[","0",","," ","0","]"," ","="," ","9">>
      [] s = "result_df" ->
        \* result = df
        <<"r","e","s","u","l","t"," ","="," ","d","f">>
      [] s = "result_int" ->
        \* result = 1
        <<"r","e","s","u","l","t"," ","="," ","1">>
      [] s = "result_count" ->
        \* result = df['a'].count()
        <<"r","e","s","u","l","t"," ","="," ","d","f","[","'","a","'","]",".","c","o","u","n","t","(",")">>
      [] s = "noop" ->
        \* x = 1
        <<"x"," ","="," ","1">>
      [] s = "raise_zero" ->
        \* x = 1 / 0
        <<"x"," ","="," ","1"," ","/"," ","0">>
      [] s = "exit" ->
        \* raise SystemExit
        <<"r","a","i","s","e"," ","S","y","s","t","e","m","E","x","i","t">>
      [] s = "syntax" ->
        \* result = (
        <<"r","e","s","u","l","t"," ","="," ","(">>
      [] s = "lib_write" ->
        \* pd.k = 1
        <<"p","d",".","k"," ","="," ","1">>
      [] s = "lib_read" ->
        \* result = getattr(pd, 'k', 0)
        <<"r","e","s","u","l","t"," ","="," ","g","e","t","a","t","t","r","(","p","d",","," ","'","k","'",","," ","0",")">>
      [] s = "eval" ->
        \* result = eval('1')
        <<"r","e","s","u","l","t"," ","="," ","e","v","a","l","(","'","1","'",")">>
      [] s = "import_os" ->
        \* import os
        <<"i","m","p","o","r","t"," ","o","s">>
      [] s = "result_ts" ->
        \* result = pd.Timestamp(0)
        <<"r","e","s","u","l","t"," ","="," ","p","d",".","T","i","m","e","s","t","a","m","p","(","0",")">>
      [] s = "result_unprintable" ->
        \* result = type('U', (), {'__str__': lambda s: None})()
        <<"r","e","s","u","l","t"," ","="," ","t","y","p","e","(","'","U","'",","," ","(",")",","," ","{","'","_","_","s","t","r","_","_","'",":"," ","l","a","m","b","d","a"," ","s",":"," ","N","o","n","e","}",")","(",")">>

\* the statements the executor is exercised with
ExecStmts ==
    {"add_col", "drop_first", "set_cell", "result_df", "result_int",
     "result_count", "noop", "raise_zero", "exit", "syntax",
     "lib_write", "lib_read", "result_ts", "result_unprintable"}

\* the statements that assign the output binding
AssignsResult ==
    {"result_df", "result_int", "result_count", "lib_read", "eval",
     "result_ts", "result_unprintable"}

\* the statements that change the table bound to df in place
MutatesDf == {"add_col", "drop_first", "set_cell"}

MaxStmts == 2

Programs(stmts) == UNION { [1..n -> stmts] : n \in 0..MaxStmts }

\* the source text of a program: its lines joined by newlines
RECURSIVE JoinLines(_, _)
JoinLines(code, i) ==
    IF i > Len(code) THEN << >>
    ELSE IF i = Len(code) THEN StmtText(code[i])
    ELSE StmtText(code[i]) \o << "\n" >> \o JoinLines(code, i + 1)

Text(code) == JoinLines(code, 1)

(***************************************************************************)
(* ExcelService.execute_query_code                                         *)
(*                                                                         *)
(* The namespace binds names to objects.  objs holds the two DataFrame     *)
(* objects of an invocation, the caller's and the one df.copy() creates;   *)
(* the binding df names one of them, and a statement that changes df in    *)
(* place changes the object df names.  pd is the library module object,    *)
(* the same object in every namespace of the process.                      *)
(***************************************************************************)
\* the library module before generated code has written to it
FreshLib == [k |-> [unset |-> TRUE]]

NoneValue == PyObject("NoneType", None)

\* mutant: 'df': df, the caller's object itself
namespace_without_copy(df, pd) ==
    [objs |-> [caller |-> df, copy |-> df], df |-> "caller",
     result |-> NoneValue, pd |-> pd]

\* lines 101-108: 'df': df.copy(), 'pd': pd, ..., 'result': None
Namespace(df, pd) ==
    [objs |-> [caller |-> df, copy |-> df], df |-> "copy",
     result |-> NoneValue, pd |-> pd]

\* the table object the binding df names
Bound(ns) == ns.objs[ns.df]

Raised(ns, exc)  == [ns |-> ns, exc |-> exc]
Completed(ns)    == [ns |-> ns, exc |-> "none"]

\* df['b'] = 1
AddColumn(t) ==
    IF \E j \in 1..Len(t.columns) : t.columns[j] = "b"
      THEN [t EXCEPT !.rows =
              [i \in 1..Len(t.rows) |->
                  [j \in 1..Len(t.columns) |->
                      IF t.columns[j] = "b" THEN Num(1) ELSE t.rows[i][j]]]]
      ELSE [columns |-> Append(t.columns, "b"),
            rows    |-> [i \in 1..Len(t.rows) |-> Append(t.rows[i], Num(1))]]

\* the effect of one statement on the namespace
Step(s, ns) ==
    LET t == Bound(ns) IN
    CASE s = "add_col" ->
           Completed([ns EXCEPT !.objs[ns.df] = AddColumn(t)])
      [] s = "drop_first" ->
           Completed([ns EXCEPT !.objs[ns.df].rows =
                         IF Len(t.rows) = 0 THEN t.rows ELSE Tail(t.rows)])
      [] s = "set_cell" ->
           IF Len(t.rows) = 0 \/ Len(t.columns) = 0
             THEN Raised(ns, "IndexError")
             ELSE Completed([ns EXCEPT !.objs[ns.df].rows[1][1] = Num(9)])
      [] s = "result_df" ->
           Completed([ns EXCEPT !.result = [kind |-> "ref", ref |-> ns.df]])
      [] s = "result_int" ->
           Completed([ns EXCEPT !.result = PyObject("int", Num(1))])
      [] s = "result_count" ->
           IF ~ \E j \in 1..Len(t.columns) : t.columns[j] = "a"
             THEN Raised(ns, "KeyError")
             ELSE LET j == Max({c \in 1..Len(t.columns) : t.columns[c] = "a"})
                      n == Cardinality({i \in 1..Len(t.rows) : notna(t.rows[i][j])})
                  IN  Completed([ns EXCEPT !.result = PyObject("int64", Num(n))])
      [] s = "noop" -> Completed(ns)
      [] s = "raise_zero" -> Raised(ns, "ZeroDivisionError")
      [] s = "exit" -> Raised(ns, "SystemExit")
      [] s = "lib_write" -> Completed([ns EXCEPT !.pd.k = Num(1)])
      [] s = "lib_read" ->
           Completed([ns EXCEPT !.result =
               PyObject("int", IF ns.pd.k = FreshLib.k THEN Num(0) ELSE ns.pd.k)])
      [] s = "eval" ->
           Completed([ns EXCEPT !.result = PyObject("int", Num(1))])
      [] s = "import_os" -> Completed(ns)
      [] s = "result_ts" ->
           Completed([ns EXCEPT !.result =
               PyObject("Timestamp", Str("1970-01-01 00:00:00"))])
      [] s = "result_unprintable" ->
           Completed([ns EXCEPT !.result = PyObject("U", Unprintable)])

\* the statements run in order until one raises
RECURSIVE Run(_, _, _)
Run(code, i, ns) ==
    IF i > Len(code) THEN Completed(ns)
    ELSE LET r == Step(code[i], ns)
         IN  IF r.exc # "none" THEN r ELSE Run(code, i + 1, r.ns)

\* exec(code, namespace): the text is compiled first, so a syntax error on
\* any line is raised before any line runs
exec(code, ns) ==
    IF \E i \in 1..Len(code) : code[i] = "syntax"
      THEN Raised(ns, "SyntaxError")
      ELSE Run(code, 1, ns)

\* the raised types `except Exception` catches; SystemExit derives from
\* BaseException only
ExceptionTypes ==
    {"SyntaxError", "ZeroDivisionError", "IndexError", "KeyError", "TypeError"}

\* str(e)
ExcMessage(exc) ==
    CASE exc = "SyntaxError" -> "'(' was never closed (<string>, line 1)"
      [] exc = "ZeroDivisionError" -> "division by zero"
      [] exc = "IndexError" -> "index 0 is out of bounds for axis 0 with size 0"
      [] exc = "KeyError" -> "'a'"
      [] exc = "TypeError" -> "__str__ returned non-string (type NoneType)"
      [] OTHER -> ""

SetResultHint == "Code did not produce a result. Ensure you set result = ..."

\* lines 116-121
NoResultEnvelope ==
    [success |-> FALSE, error |-> << SetResultHint >>,
     result |-> None, result_type |-> None]

\* lines 127-132: f"Execution error: {str(e)}\n{traceback.format_exc()}"
ErrorEnvelope(exc) ==
    [success |-> FALSE,
     error |-> << "Execution error: ", ExcMessage(exc), "\n",
                  "Traceback (most recent call last):", exc >>,
     result |-> None, result_type |-> None]

\* namespace.get('result')
ResultOf(ns) ==
    IF ns.result.kind = "ref" THEN DataFrameValue(ns.objs[ns.result.ref])
    ELSE ns.result

\* The body of execute_query_code from the namespace on.  The outcome says
\* whether the call returned (an envelope) or let the raised error through,
\* and gives the objects as the call leaves them.
ExecuteIn(ns0, code, check_none) ==
    LET r      == exec(code, ns0)
        result == ResultOf(r.ns)
        caught == r.exc \in ExceptionTypes
        escaped == r.exc # "none" /\ ~ caught
        processed == _process_result(result, Bound(r.ns))
    IN  [returned  |-> ~ escaped,
         raised    |-> r.exc,
         envelope  |-> IF escaped THEN NoValue
                       ELSE IF caught THEN ErrorEnvelope(r.exc)
                       ELSE IF check_none /\ result = NoneValue THEN NoResultEnvelope
                       \* line 124 is inside the try: what _process_result
                       \* raises is caught at line 126 like what the code raises
                       ELSE IF "raised" \in DOMAIN processed
                         THEN ErrorEnvelope(processed.raised)
                       ELSE processed,
         caller_df |-> r.ns.objs.caller,
         namespace_df |-> Bound(r.ns),
         pd        |-> r.ns.pd]

\* mutant: the namespace binds df to the caller's object
execute_without_copy(df, code, pd) ==
    ExecuteIn(namespace_without_copy(df, pd), code, TRUE)

\* mutant: the `if result is None` test is missing
execute_without_none_check(df, code, pd) ==
    ExecuteIn(Namespace(df, pd), code, FALSE)

execute_query_code(df, code, pd) == ExecuteIn(Namespace(df, pd), code, TRUE)

(***************************************************************************)
(* SpecExecute: invocations of execute_query_code, one after another, on   *)
(* one Table; the service object and the library modules are shared by all *)
(* invocations of the process (routes.py: excel_service = ExcelService()). *)
(***************************************************************************)
ExecCells == {Num(1), NaN}

ExecTables == AllTables(<< "a" >>, ExecCells, MaxRows)

Invocation(df, code, pd, out) ==
    [df |-> df, code |-> code, pd |-> pd, out |-> out]

InitExecute ==
    /\ tbl \in ExecTables
    /\ lib = FreshLib
    /\ last = NoValue
    /\ again = NoValue
    /\ ValidatorIdle
    /\ NormalizerIdle
    /\ PipelineIdle
    /\ JoinIdle
    /\ GeneratorIdle
    /\ HistoryIdle

\* a caller invokes execute_query_code(tbl, code)
Execute(code) ==
    /\ last = NoValue
    /\ LET out == execute_query_code(tbl, code, lib)
       IN  /\ last' = Invocation(tbl, code, lib, out)
           /\ tbl' = out.caller_df
           /\ lib' = out.pd
    /\ UNCHANGED << again, vvars, nvars, pvars, jvars, gvars, hvars >>

\* the same code is executed a second time against the same Table
ExecuteAgain ==
    /\ last # NoValue
    /\ again = NoValue
    /\ LET out == execute_query_code(tbl, last.code, lib)
       IN  /\ again' = Invocation(tbl, last.code, lib, out)
           /\ tbl' = out.caller_df
           /\ lib' = out.pd
    /\ UNCHANGED << last, vvars, nvars, pvars, jvars, gvars, hvars >>

\* the caller has consumed the outcome; the next invocation can start
ReturnToCaller ==
    /\ last # NoValue
    /\ last' = NoValue
    /\ again' = NoValue
    /\ UNCHANGED << tbl, lib, vvars, nvars, pvars, jvars, gvars, hvars >>

NextExecute ==
    \/ \E code \in Programs(ExecStmts) : Execute(code)
    \/ ExecuteAgain
    \/ ReturnToCaller

SpecExecute == InitExecute /\ [][NextExecute]_vars

(***************************************************************************)
(* LLMService.generate_pandas_code and the two backends it calls: Ollama   *)
(* through _call_ollama (requests.post) and OpenAI through the client      *)
(* self.client = OpenAI(api_key=...).  `answers` is how the backend        *)
(* answers the successive requests sent to it during one call.             *)
(***************************************************************************)
\* the lines the language model answers with
PipeStmts ==
    {"add_col", "result_df", "result_int", "raise_zero", "eval", "import_os"}

\* "code": null in the answer, llm_response['code'] is None
NoProgram == << "None" >>

\* the answer has no "code" field
AbsentCode == << "absent" >>

\* what one request to the backend ends in
ConnectionError == [kind |-> "ConnectionError"]
Timeout         == [kind |-> "Timeout"]
HTTPError       == [kind |-> "HTTPError"]
BodyNotJson     == [kind |-> "BodyNotJson"]   \* response.json() fails
NoMessage       == [kind |-> "NoMessage"]     \* the body has no ['message']
NoContent       == [kind |-> "NoContent"]     \* message.content is None
Reply(content)  == [kind |-> "reply", content |-> content]

\* message contents: a text that is no JSON; a JSON object with its "code"
\* field; a JSON array; a JSON number
NotJson          == [json |-> FALSE, type |-> "none", code |-> AbsentCode]
JsonObject(code) == [json |-> TRUE, type |-> "object", code |-> code]
JsonArray        == [json |-> TRUE, type |-> "array", code |-> AbsentCode]
JsonNumber       == [json |-> TRUE, type |-> "number", code |-> AbsentCode]

Contents(codes) ==
    {NotJson, JsonArray, JsonNumber} \cup {JsonObject(c) : c \in codes}

\* the requests the OpenAI client resends after a failed one (the default of
\* OpenAI(api_key=...))
max_retries == 2

\* the failures the OpenAI client resends the request after
Retried == {ConnectionError, Timeout, HTTPError}

CallRaised(message, sent) ==
    [raised |-> TRUE, message |-> message, content |-> NotJson, sent |-> sent]

CallReturned(content, sent) ==
    [raised |-> FALSE, message |-> << >>, content |-> content, sent |-> sent]

\* mutant: every failure of the request is reported with one message
_call_ollama_one_message(answers) ==
    IF answers[1].kind = "reply" THEN CallReturned(answers[1].content, 1)
    ELSE CallRaised(<< "Ollama error" >>, 1)

\* lines 104-133: one requests.post, its failures re-raised with a message
_call_ollama(answers) ==
    LET a == answers[1] IN
    CASE a = ConnectionError ->
           CallRaised(<< "Cannot connect to Ollama. Make sure Ollama is running: 'ollama serve'" >>, 1)
      [] a = Timeout ->
           CallRaised(<< "Ollama request timed out. Query might be too complex." >>, 1)
      [] a = HTTPError ->
           CallRaised(<< "Ollama error: ", "500 Server Error" >>, 1)
      [] a = BodyNotJson ->
           CallRaised(<< "Ollama error: ", "Expecting value: line 1 column 1 (char 0)" >>, 1)
      [] a = NoMessage ->
           CallRaised(<< "Ollama error: ", "'message'" >>, 1)
      [] OTHER -> CallReturned(a.content, 1)

\* lines 56-65: self.client.chat.completions.create(...) and
\* response.choices[0].message.content; request k is answered by answers[k]
RECURSIVE chat_completions_create(_, _)
chat_completions_create(answers, k) ==
    LET a == answers[k] IN
    IF a \in Retried /\ k <= max_retries /\ k < Len(answers)
      THEN chat_completions_create(answers, k + 1)
    ELSE CASE a = ConnectionError -> CallRaised(<< "Connection error." >>, k)
           [] a = Timeout -> CallRaised(<< "Request timed out." >>, k)
           [] a = HTTPError -> CallRaised(<< "Error code: 500" >>, k)
           [] a = NoContent ->
                \* json.loads(None)
                CallRaised(<< "the JSON object must be str, bytes or bytearray, not NoneType" >>, k)
           [] OTHER -> CallReturned(a.content, k)

\* lines 84-102: the dict returned on failure
GenerationFailure(error) ==
    [success |-> FALSE, code |-> NoProgram, error |-> error]

\* lines 73-81: the dict returned on success
GenerationSuccess(code) ==
    [success |-> TRUE, code |-> code, error |-> NoError]

\* lines 52-102; the outcome gives the dict returned and the number of
\* requests sent to the backend
generate_pandas_code(mode, answers) ==
    LET call == IF mode = "ollama" THEN _call_ollama(answers)
                ELSE chat_completions_create(answers, 1)
        c == call.content
        result ==
            IF call.raised THEN GenerationFailure(<< "LLM error: " >> \o call.message)
            ELSE IF ~ c.json
              THEN GenerationFailure(<< "Failed to parse LLM response as JSON: ",
                                        "Expecting value: line 1 column 1 (char 0)" >>)
            ELSE IF c.type = "number"
              THEN GenerationFailure(<< "LLM error: ",
                                        "argument of type 'int' is not iterable" >>)
            ELSE IF c.type = "array" \/ c.code = AbsentCode
              THEN GenerationFailure(<< "LLM error: ",
                                        "LLM response missing 'code' field" >>)
            ELSE GenerationSuccess(c.code)
    IN  [result |-> result, sent |-> call.sent]

\* the dicts generate_pandas_code returns to the request paths
LLMResponses ==
    {generate_pandas_code("ollama", << Reply(JsonObject(c)) >>).result :
        c \in Programs(PipeStmts) \cup {NoProgram}}
    \cup {generate_pandas_code("ollama", << a >>).result :
            a \in {ConnectionError, Reply(NotJson)}}

(***************************************************************************)
(* SpecGenerate: one call of generate_pandas_code against every backend    *)
(* behaviour                                                               *)
(***************************************************************************)
\* the "code" fields of the answers
GenCodes ==
    {AbsentCode, NoProgram, << >>, << "result_df" >>, << "eval" >>,
     << "result_int", "raise_zero" >>}

\* what a request to the backend can end in: BodyNotJson and NoMessage are
\* about the body _call_ollama reads, NoContent about the message the
\* OpenAI client returns
Answers(mode) ==
    {ConnectionError, Timeout, HTTPError}
    \cup (IF mode = "ollama" THEN {BodyNotJson, NoMessage} ELSE {NoContent})
    \cup {Reply(c) : c \in Contents(GenCodes)}

\* the answers to the requests of one call: after n failed requests that
\* a client could resend, a last answer
AnswerSeqs(mode) ==
    UNION { {f \o << a >> : f \in [1..n -> Retried], a \in Answers(mode)} :
              n \in 0..max_retries }

Backends == {"ollama", "openai"}

GenerateInputs ==
    UNION { {[mode |-> m, answers |-> a] : a \in AnswerSeqs(m)} : m \in Backends }

InitGenerate ==
    /\ gin \in GenerateInputs
    /\ gout = NoValue
    /\ ValidatorIdle
    /\ NormalizerIdle
    /\ ExecutorIdle
    /\ PipelineIdle
    /\ JoinIdle
    /\ HistoryIdle

GenerateCode ==
    /\ gout = NoValue
    /\ gout' = generate_pandas_code(gin.mode, gin.answers)
    /\ UNCHANGED << gin, vvars, nvars, xvars, pvars, jvars, hvars >>

NextGenerate == GenerateCode

SpecGenerate == InitGenerate /\ [][NextGenerate]_vars

(***************************************************************************)
(* The four request paths that run generated code: query_excel and         *)
(* export_result (routes.py), BatchProcessor.process_batch and             *)
(* execute_pipeline.  Each handles a query in three calls: generate the    *)
(* code, validate it, execute it.  `calls` is the trace of the service     *)
(* calls made for the query being handled.                                 *)
(***************************************************************************)
MaxQueries == 2

PipeTables == AllTables(<< "a" >>, {Num(1)}, MaxRows)

NoTable == [columns |-> << >>, rows |-> << >>]

\* one service call: its argument text, whether it returned normally, and
\* the text it returned
Event(op, arg, ok, ret) == [op |-> op, arg |-> arg, ok |-> ok, ret |-> ret]

\* what a path on disk names: nothing, a file pandas cannot parse, or a
\* sheet holding a Table
Absent == [kind |-> "absent"]

Unparsable == [kind |-> "unparsable"]

Sheet(t) == [kind |-> "sheet", table |-> t]

Files == {Absent, Unparsable} \cup {Sheet(t) : t \in PipeTables}

\* no digest has been computed
NoDigest == [columns |-> << >>, shape |-> << >>]

\* _extract_dataframe_info(df): of the digest the model keeps
\* 'columns': df.columns.tolist() and 'shape': df.shape
_extract_dataframe_info(df) ==
    [columns |-> df.columns, shape |-> << Len(df.rows), Len(df.columns) >>]

\* read_excel(filepath, sheet_name): pandas reads the sheet and the digest
\* is taken from what it read; whatever pandas raises becomes the
\* ValueError "Error reading file: ..."
read_excel(file) ==
    IF file.kind = "sheet"
      THEN [raised |-> FALSE, df |-> file.table,
            metadata |-> _extract_dataframe_info(file.table)]
      ELSE [raised |-> TRUE, df |-> NoTable, metadata |-> NoDigest]

RunIdle ==
    [pc |-> "idle", path |-> "none", chain |-> FALSE, queries |-> << >>,
     i |-> 0, df |-> NoTable, current_df |-> NoTable, results |-> << >>,
     code |-> NoProgram, response |-> "none", df_info |-> NoDigest]

\* a handler starts on the loaded Table
Begin(path, df, queries, chain) ==
    [pc |-> "generate", path |-> path, chain |-> chain, queries |-> queries,
     i |-> 0, df |-> df, current_df |-> df, results |-> << >>,
     code |-> NoProgram, response |-> "none", df_info |-> NoDigest]

\* df.empty
IsEmpty(t) == Len(t.rows) = 0 \/ Len(t.columns) = 0

\* pd.DataFrame(execution_result['result']): the columns are the keys of the
\* records, no record gives a table without columns
FromRecords(envelope) ==
    LET recs == envelope.result.records
        cols == IF Len(recs) = 0 THEN << >> ELSE envelope.columns
    IN  [columns |-> cols,
         rows    |-> [i \in 1..Len(recs) |->
                         [j \in 1..Len(cols) |-> recs[i][cols[j]]]]]

\* the handler returns or raises: no further query is handled
Stop(r, response) == [r EXCEPT !.pc = "done", !.response = response,
                               !.code = NoProgram, !.df_info = NoDigest]

\* the loop moves to the next query, or ends after the last one
NextQuery(r) ==
    IF r.i + 1 >= Len(r.queries)
      THEN [r EXCEPT !.pc = "done", !.i = r.i + 1, !.response = "returned",
                     !.code = NoProgram, !.df_info = NoDigest]
      ELSE [r EXCEPT !.pc = "generate", !.i = r.i + 1, !.code = NoProgram,
                     !.df_info = NoDigest]

\* results.append({'query_index': i, ..., 'success': False, 'error': ...});
\* of an entry the model keeps the index, the success flag and the flag
\* `chained`
FailedResult(r) ==
    [query_index |-> r.i, success |-> FALSE, chained |-> FALSE]

\* query_result of process_batch (lines 84-104), the entry of
\* execute_pipeline (lines 183-189)
SucceededResult(r, chained) ==
    [query_index |-> r.i, success |-> TRUE, chained |-> chained]

\* a query fails in process_batch / execute_pipeline: the failure is
\* recorded; a chain and a pipeline stop, a plain batch continues
LoopFailure(r) ==
    LET rec == [r EXCEPT !.results = Append(r.results, FailedResult(r))]
    IN  IF r.path = "pipeline" \/ r.chain THEN Stop(rec, "returned")
        ELSE NextQuery(rec)

\* str(e) of the ValueError validate_and_enhance_code raises
str_e(v) == << v.error >> \o v.detail

\* query_history.add_query(..., result_type=..., success=..., error=...):
\* the entry appended to the history
AddQuery(ok, result_type, error) ==
    Event("add_query", error, ok, << result_type >>)

\* mutant: a rejected text is executed all the same
execute_despite_rejection(code, v) == code

\* validated_code = validate_and_enhance_code(llm_response['code']) followed
\* by execute_query_code(df, validated_code): the code that reaches execute,
\* none when validate raised
code_to_execute(code, v) == IF v.raised THEN NoProgram ELSE code

InitPipeline ==
    /\ run = RunIdle
    /\ calls = << >>
    /\ lib = FreshLib
    /\ tbl = NoValue /\ last = NoValue /\ again = NoValue
    /\ ValidatorIdle
    /\ NormalizerIdle
    /\ JoinIdle
    /\ GeneratorIdle
    /\ HistoryIdle

\* the handler of a route has the table and the digest read_excel returned
Loaded(path, loaded) ==
    [Begin(path, loaded.df, << TRUE >>, FALSE) EXCEPT
        !.df_info = loaded.metadata]

\* POST /query up to the call of generate_pandas_code (routes.py 148-179)
StartQuery(file) ==
    /\ run.pc = "idle"
    /\ LET loaded == read_excel(file)
           r == Loaded("query", loaded)
       IN  run' = IF file = Absent THEN Stop(r, "404 File not found")
                  ELSE IF loaded.raised
                    THEN Stop(r, "400 Failed to read Excel file")
                  ELSE IF IsEmpty(loaded.df)
                    THEN Stop(r, "400 DataFrame is empty")
                  ELSE r
    /\ calls' = << >>
    /\ UNCHANGED << vvars, nvars, xvars, jvars, gvars, hvars >>

\* POST /export up to the call of generate_pandas_code (routes.py 335-343)
StartExport(file) ==
    /\ run.pc = "idle"
    /\ LET loaded == read_excel(file)
           r == Loaded("export", loaded)
       IN  run' = IF file = Absent THEN Stop(r, "404 File not found")
                  ELSE IF loaded.raised THEN Stop(r, "500 handle_error")
                  ELSE r
    /\ calls' = << >>
    /\ UNCHANGED << vvars, nvars, xvars, jvars, gvars, hvars >>

\* process_batch(df, queries, chain_results) up to the loop
StartBatch(df, n, chain) ==
    /\ run.pc = "idle"
    /\ LET r == Begin("batch", df, [k \in 1..n |-> TRUE], chain)
       IN  run' = IF n = 0 THEN Stop(r, "returned") ELSE r
    /\ calls' = << >>
    /\ UNCHANGED << vvars, nvars, xvars, jvars, gvars, hvars >>

\* execute_pipeline(df, pipeline) up to the loop; steps[k] tells whether
\* step k carries a query
StartPipeline(df, steps) ==
    /\ run.pc = "idle"
    /\ LET r == Begin("pipeline", df, steps, TRUE)
       IN  run' = IF Len(steps) = 0 THEN Stop(r, "returned") ELSE r
    /\ calls' = << >>
    /\ UNCHANGED << vvars, nvars, xvars, jvars, gvars, hvars >>

\* execute_pipeline lines 149-151: a step without a query is skipped
SkipStep ==
    /\ run.pc = "generate"
    /\ ~ run.queries[run.i + 1]
    /\ run' = NextQuery(run)
    /\ calls' = << >>
    /\ UNCHANGED << vvars, nvars, xvars, jvars, gvars, hvars >>

\* a digest taken once, before the loop, from the caller's table
df_info_before_loop(r) ==
    IF r.path \in {"batch", "pipeline"}
      THEN _extract_dataframe_info(r.df)
      ELSE r.df_info

\* the digest handed to generate_pandas_code: the routes hand over the one
\* read_excel returned, process_batch (line 44) and execute_pipeline
\* (line 155) take it from current_df at each query
df_info(r) ==
    IF r.path \in {"batch", "pipeline"}
      THEN _extract_dataframe_info(r.current_df)
      ELSE r.df_info

\* llm_response = generate_pandas_code(...) and the test of its success
Generate(resp) ==
    /\ run.pc = "generate"
    /\ run.queries[run.i + 1]
    /\ LET gen == Event("generate_pandas_code", << >>, resp.success, resp.error)
       IN  IF resp.success
             THEN /\ run' = [run EXCEPT !.pc = "validate", !.code = resp.code,
                                         !.df_info = df_info(run)]
                  /\ calls' = << gen >>
           ELSE IF run.path = "query"
             THEN /\ run' = Stop(run, "500 Code generation failed")
                  /\ calls' = << gen, AddQuery(FALSE, "error", resp.error) >>
           ELSE IF run.path = "export"
             THEN /\ run' = Stop(run, "500 Code generation failed")
                  /\ calls' = << gen >>
           ELSE /\ run' = LoopFailure(run)
                /\ calls' = << gen >>
    /\ UNCHANGED << vvars, nvars, xvars, jvars, gvars, hvars >>

\* code = validate_and_enhance_code(llm_response['code']) and what the
\* handler does when it raises
ValidateCode ==
    /\ run.pc = "validate"
    /\ LET text == IF run.code = NoProgram THEN << >> ELSE Text(run.code)
           v == IF run.code = NoProgram
                  THEN Raise("AttributeError", << >>)
                  ELSE validate_and_enhance_code(text)
           x == code_to_execute(run.code, v)
           val == Event("validate_and_enhance_code", text, ~ v.raised, v.returned)
       IN  IF x # NoProgram
             THEN /\ run' = [run EXCEPT !.pc = "execute", !.code = x]
                  /\ calls' = Append(calls, val)
           ELSE IF run.path = "query" /\ v.error # "AttributeError"
             THEN \* except ValueError (routes.py 204-216)
                  /\ run' = Stop(run, "400 Code validation failed")
                  /\ calls' = calls \o << val, AddQuery(FALSE, "error", str_e(v)) >>
           ELSE IF run.path \in {"query", "export"}
             THEN \* except Exception: handle_error
                  /\ run' = Stop(run, "500 handle_error")
                  /\ calls' = Append(calls, val)
           ELSE /\ run' = LoopFailure(run)
                /\ calls' = Append(calls, val)
    /\ UNCHANGED << vvars, nvars, xvars, jvars, gvars, hvars >>

\* execution_result = execute_query_code(current_df, code) and what the
\* handler does with the envelope
ExecuteCode ==
    /\ run.pc = "execute"
    /\ LET out == execute_query_code(run.current_df, run.code, lib)
           env == out.envelope
           exe == Event("execute_query_code", Text(run.code), out.returned,
                        IF ~ out.returned THEN << >>
                        ELSE IF env.success THEN << env.result_type >>
                        ELSE env.error)
           isdf == env.result_type = "dataframe"
       IN  /\ lib' = out.pd
           /\ IF ~ out.returned
                THEN \* the raised error leaves the handler
                     /\ run' = Stop(run, out.raised)
                     /\ calls' = Append(calls, exe)
              ELSE IF run.path = "query"
                THEN /\ run' = Stop(run, IF env.success THEN "200 success"
                                         ELSE "500 Execution failed")
                     /\ calls' = calls \o
                          << exe, IF env.success
                                    THEN AddQuery(TRUE, env.result_type, NoError)
                                    ELSE AddQuery(FALSE, "error", env.error) >>
              ELSE IF run.path = "export"
                THEN /\ run' = Stop(run,
                          IF ~ env.success THEN "500 Query execution failed"
                          ELSE IF isdf THEN "200 success"
                          ELSE "400 Query result is not a DataFrame")
                     /\ calls' = Append(calls, exe)
              ELSE IF ~ env.success
                THEN /\ run' = LoopFailure(run)
                     /\ calls' = Append(calls, exe)
              ELSE LET chained == (run.path = "pipeline" \/ run.chain) /\ isdf
                       rec == [run EXCEPT
                                 !.results = Append(run.results,
                                     SucceededResult(run, chained)),
                                 !.current_df = IF chained THEN FromRecords(env)
                                                ELSE run.current_df]
                   IN  /\ run' = NextQuery(rec)
                       /\ calls' = Append(calls, exe)
    /\ UNCHANGED << tbl, last, again, vvars, nvars, jvars, gvars, hvars >>

\* the handler's response has gone out; the next request can start
Respond ==
    /\ run.pc = "done"
    /\ run' = RunIdle
    /\ calls' = << >>
    /\ UNCHANGED << vvars, nvars, xvars, jvars, gvars, hvars >>

Next ==
    \/ \E file \in Files : StartQuery(file)
    \/ \E file \in Files : StartExport(file)
    \/ \E df \in PipeTables, n \in 0..MaxQueries, chain \in BOOLEAN :
          StartBatch(df, n, chain)
    \/ \E df \in PipeTables :
          \E steps \in UNION {[1..n -> BOOLEAN] : n \in 0..MaxQueries} :
              StartPipeline(df, steps)
    \/ SkipStep
    \/ \E resp \in LLMResponses : Generate(resp)
    \/ ValidateCode
    \/ ExecuteCode
    \/ Respond

Spec == InitPipeline /\ [][Next]_vars

(***************************************************************************)
(* JoinService (app/services/join_service.py): smart_join,                 *)
(* _detect_join_columns, analyze_join_potential.                           *)
(*                                                                         *)
(* list(set(df1.columns) & set(df2.columns)) lists the common names in the *)
(* iteration order of a set of strings, which the hash seed of the process *)
(* fixes: `order` is that list, any arrangement of the common names.       *)
(***************************************************************************)
MaxCols == 2

JoinNames == {"id", "user_key", "notes", "value"}

\* the characters of a column name
NameChars(c) ==
    CASE c = "id" -> <<"i","d">>
      [] c = "user_key" -> <<"u","s","e","r","_","k","e","y">>
      [] c = "notes" -> <<"n","o","t","e","s">>
      [] c = "value" -> <<"v","a","l","u","e">>

\* line 121
id_keywords ==
    << <<"i","d">>, <<"k","e","y">>, <<"c","o","d","e">>, <<"n","u","m","b","e","r">>, <<"n","o">> >>

\* the sequences over S without repetition, of the given lengths
Arrangements(S, lengths) ==
    UNION { {q \in [1..n -> S] : \A a, b \in 1..n : q[a] = q[b] => a = b} :
              n \in lengths }

ColumnLists == Arrangements(JoinNames, 0..MaxCols)

\* a table of n rows whose cells all hold v
JoinTable(columns, n, v) ==
    [columns |-> columns,
     rows |-> [i \in 1..n |-> [j \in 1..Len(columns) |-> Num(v)]]]

FirstTables == {JoinTable(c, n, 1) : c \in ColumnLists, n \in {0, 1}}

SecondTables == {JoinTable(c, 1, v) : c \in ColumnLists, v \in {1, 2}}

\* join_columns=None
NoKeys == << "None" >>

\* the explicit join_columns a caller passes
KeyLists == Arrangements({"id", "value"}, {1, 2})

JoinModes == {"inner", "left", "right", "outer"}

\* set(df1.columns) & set(df2.columns)
CommonColumns(df1, df2) == Range(df1.columns) \cap Range(df2.columns)

\* the orders list(...) can give the common names in
Orders(df1, df2) ==
    LET S == CommonColumns(df1, df2)
    IN  Arrangements(S, {Cardinality(S)})

\* any(keyword in col.lower() for keyword in id_keywords)
LooksLikeId(col) ==
    \E k \in 1..Len(id_keywords) : Contains(lower(NameChars(col)), id_keywords[k])

\* lines 113-131, common_cols being `order`
_detect_join_columns(df1, df2, order) ==
    LET common_cols   == order
        priority_cols == SelectSeq(common_cols, LooksLikeId)
    IN  IF common_cols = << >> THEN << >>
        ELSE IF priority_cols # << >> THEN SubSeq(priority_cols, 1, 1)
        ELSE SubSeq(common_cols, 1, 1)

\* a column of a merged table: the name and the suffix merge gave it
Column(name, suffix) == [name |-> name, suffix |-> suffix]

IndexOf(columns, c) == CHOOSE j \in 1..Len(columns) : columns[j] = c

RECURSIVE Flatten(_)
Flatten(seqs) == IF seqs = << >> THEN << >> ELSE Head(seqs) \o Flatten(Tail(seqs))

\* pd.merge(df1, df2, on=on, how=how, suffixes=('_left', '_right')) for
\* tables of at most one row: the key columns once, a common name that is
\* no key suffixed on both sides, a row per matching pair of rows, and in
\* the modes that keep them the unmatched rows, filled with NaN
merge(df1, df2, on, how) ==
    IF \E k \in 1..Len(on) :
          on[k] \notin Range(df1.columns) \/ on[k] \notin Range(df2.columns)
      THEN [raised |-> "KeyError", table |-> NoValue]
    ELSE
      LET keys    == Range(on)
          overlap == CommonColumns(df1, df2) \ keys
          rest    == SelectSeq(df2.columns, LAMBDA c : c \notin keys)
          columns ==
              [j \in 1..Len(df1.columns) |->
                  Column(df1.columns[j],
                         IF df1.columns[j] \in overlap THEN "_left" ELSE "")]
              \o [j \in 1..Len(rest) |->
                  Column(rest[j], IF rest[j] \in overlap THEN "_right" ELSE "")]
          Matches(i, j) ==
              \A c \in keys : df1.rows[i][IndexOf(df1.columns, c)]
                                 = df2.rows[j][IndexOf(df2.columns, c)]
          RightPart(j) ==
              [k \in 1..Len(rest) |-> df2.rows[j][IndexOf(df2.columns, rest[k])]]
          Missing(n) == [k \in 1..n |-> NaN]
          LeftRows(i) ==
              LET js == SelectSeq([j \in 1..Len(df2.rows) |-> j],
                                  LAMBDA j : Matches(i, j))
              IN  IF js = << >>
                    THEN IF how \in {"left", "outer"}
                           THEN << df1.rows[i] \o Missing(Len(rest)) >>
                           ELSE << >>
                    ELSE [m \in 1..Len(js) |-> df1.rows[i] \o RightPart(js[m])]
          Unmatched(j) ==
              IF how \in {"right", "outer"}
                 /\ ~ \E i \in 1..Len(df1.rows) : Matches(i, j)
                THEN << [k \in 1..Len(df1.columns) |->
                           IF df1.columns[k] \in keys
                             THEN df2.rows[j][IndexOf(df2.columns, df1.columns[k])]
                             ELSE NaN]
                        \o RightPart(j) >>
                ELSE << >>
      IN  [raised |-> "none",
           table  |-> [columns |-> columns,
                       rows |-> Flatten([i \in 1..Len(df1.rows) |-> LeftRows(i)])
                                \o Flatten([j \in 1..Len(df2.rows) |-> Unmatched(j)])]]

\* raise ValueError(message)
JoinError(message) ==
    [raised |-> TRUE, error |-> message, result |-> NoValue, merged |-> FALSE,
     on |-> << >>]

\* mutant: the keys are looked up in the first dataset only
missing_key_in_first_only(df1, df2, join_columns) ==
    LET bad == {k \in 1..Len(join_columns) :
                   join_columns[k] \notin Range(df1.columns)}
    IN  IF bad = {} THEN << >>
        ELSE << join_columns[Min(bad)], "first dataset" >>

\* lines 71-76: the first key, in the order given, that a dataset lacks, and
\* the dataset that lacks it (the first dataset is looked at first)
missing_key(df1, df2, join_columns) ==
    LET bad == {k \in 1..Len(join_columns) :
                   \/ join_columns[k] \notin Range(df1.columns)
                   \/ join_columns[k] \notin Range(df2.columns)}
    IN  IF bad = {} THEN << >>
        ELSE LET col == join_columns[Min(bad)]
             IN  << col, IF col \notin Range(df1.columns) THEN "first dataset"
                         ELSE "second dataset" >>

\* lines 43-98
smart_join(df1, df2, join_columns, how, order) ==
    LET detected == _detect_join_columns(df1, df2, order)
        on       == IF join_columns = NoKeys THEN detected ELSE join_columns
        missing  == missing_key(df1, df2, on)
        m        == merge(df1, df2, on, how)
    IN  IF join_columns = NoKeys /\ detected = << >>
          THEN JoinError(<< "Could not auto-detect join columns. ",
                            "Please specify join columns explicitly." >>)
        ELSE IF missing # << >>
          THEN JoinError(<< "Column '", missing[1], "' not found in ", missing[2] >>)
        ELSE IF m.raised # "none"
          THEN [raised |-> TRUE,
                error |-> << "Join operation failed: ", m.raised >>,
                result |-> NoValue, merged |-> TRUE, on |-> on]
        ELSE [raised |-> FALSE, error |-> << >>, result |-> m.table,
              merged |-> TRUE, on |-> on]

\* lines 174-213; the ratios nunique() / len(df) divide by the number of rows
analyze_join_potential(df1, df2, order) ==
    LET common_cols == order
    IN  IF common_cols # << >> /\ (Len(df1.rows) = 0 \/ Len(df2.rows) = 0)
          THEN [raised |-> "ZeroDivisionError"]
        ELSE [raised |-> "none",
              common_columns |-> common_cols,
              recommended_join_columns |-> _detect_join_columns(df1, df2, order),
              df1_shape |-> << Len(df1.rows), Len(df1.columns) >>,
              df2_shape |-> << Len(df2.rows), Len(df2.columns) >>,
              df1_columns |-> df1.columns,
              df2_columns |-> df2.columns,
              column_uniqueness |-> Range(common_cols)]

(***************************************************************************)
(* SpecJoin: one call of the join planner on every pair of tables          *)
(***************************************************************************)
InitJoin ==
    /\ jin \in {[df1 |-> a, df2 |-> b] : a \in FirstTables, b \in SecondTables}
    /\ jout = NoValue
    /\ ValidatorIdle
    /\ NormalizerIdle
    /\ ExecutorIdle
    /\ PipelineIdle
    /\ GeneratorIdle
    /\ HistoryIdle

SmartJoin(join_columns, how, order) ==
    /\ jout = NoValue
    /\ jout' = [op |-> "smart_join", join_columns |-> join_columns,
                how |-> how, order |-> order,
                out |-> smart_join(jin.df1, jin.df2, join_columns, how, order),
                df1 |-> jin.df1, df2 |-> jin.df2]
    /\ UNCHANGED << jin, vvars, nvars, xvars, pvars, gvars, hvars >>

AnalyzeJoin(order) ==
    /\ jout = NoValue
    /\ jout' = [op |-> "analyze_join_potential", join_columns |-> NoKeys,
                how |-> "none", order |-> order,
                out |-> analyze_join_potential(jin.df1, jin.df2, order),
                df1 |-> jin.df1, df2 |-> jin.df2]
    /\ UNCHANGED << jin, vvars, nvars, xvars, pvars, gvars, hvars >>

NextJoin ==
    \/ \E join_columns \in KeyLists, how \in JoinModes :
          \* explicit keys: the common names are not listed
          SmartJoin(join_columns, how, << >>)
    \/ \E how \in JoinModes : \E order \in Orders(jin.df1, jin.df2) :
          SmartJoin(NoKeys, how, order)
    \/ \E order \in Orders(jin.df1, jin.df2) : AnalyzeJoin(order)

SpecJoin == InitJoin /\ [][NextJoin]_vars


(***************************************************************************)
(* QueryHistory (query_history.py): the history log.  Every process that   *)
(* imports routes.py builds one QueryHistory (line 23); the instances of   *)
(* several processes share the file data/query_history.json.  The          *)
(* handlers of routes.py are coroutines without an await, so within one    *)
(* process one call of the service ends before the next begins.  The file  *)
(* writes of the model succeed.                                            *)
(***************************************************************************)
MaxEntries == 2

\* the processes serving requests, each with its QueryHistory
Instances == {1, 2}

\* the values datetime.now() gives: the local wall clock of the host, which
\* can give a call the value it gave the call before, or a smaller one
Clock == {1, 2}

\* result_shape=(1, 1): df.shape, as add_query receives it
ShapeTuple == [tuple |-> << 1, 1 >>]

\* lines 67-78: the entry, with the fields whose values differ between
\* entries
Entry(id, timestamp, success, result_shape) ==
    [id |-> id, timestamp |-> timestamp, success |-> success,
     result_shape |-> result_shape]

\* json.dump(self.history, f, indent=2, default=str): a tuple is written as
\* an array, every other value of an entry as itself
json_dump(entries) ==
    [k \in 1..Len(entries) |->
        [entries[k] EXCEPT !.result_shape =
            IF "tuple" \in DOMAIN @ THEN [list |-> @.tuple] ELSE @]]

\* json.load(f): an array is read as a list
json_load(content) == content

\* the file is absent, or holds what the last json.dump wrote
NoFile == [exists |-> FALSE, content |-> << >>]
FileOf(content) == [exists |-> TRUE, content |-> content]

\* lines 30-36
_save_history(entries) == FileOf(json_dump(entries))

\* lines 19-28
_load_history(file) == IF file.exists THEN json_load(file.content) ELSE << >>

\* a process that has not started yet holds no log
Down == [up |-> FALSE, entries |-> << >>]
Up(entries) == [up |-> TRUE, entries |-> entries]

\* what a call returned
Returned(op, inst, arg, ret) == [op |-> op, inst |-> inst, arg |-> arg, ret |-> ret]

\* list.pop(i)
pop(q, i) == [k \in 1..(Len(q) - 1) |-> IF k < i THEN q[k] ELSE q[k + 1]]

\* sorted(queries, key=lambda x: x['timestamp'], reverse=True): the sort is
\* stable, entries of equal timestamp keep their order
RECURSIVE sorted_reverse(_)
sorted_reverse(q) ==
    IF Len(q) = 0 THEN << >>
    ELSE LET top == Max({q[k].timestamp : k \in 1..Len(q)})
             m   == Min({k \in 1..Len(q) : q[k].timestamp = top})
         IN  << q[m] >> \o sorted_reverse(pop(q, m))

\* lines 100-108
get_recent_queries(entries, limit, success_only) ==
    LET queries == IF success_only
                     THEN SelectSeq(entries, LAMBDA e : e.success)
                     ELSE entries
    IN  head(sorted_reverse(queries), limit)

\* lines 120-123: the entry, or None
get_query_by_id(entries, query_id) ==
    LET found == {k \in 1..Len(entries) : entries[k].id = query_id}
    IN  IF found = {} THEN None ELSE entries[Min(found)]

\* mutant: every entry after the one found is dropped as well
delete_from(entries, query_id) ==
    LET found == {k \in 1..Len(entries) : entries[k].id = query_id}
    IN  IF found = {} THEN [ret |-> FALSE, entries |-> entries]
        ELSE [ret |-> TRUE, entries |-> SubSeq(entries, 1, Min(found) - 1)]

\* lines 211-216: the list after the call and the value returned
delete_query(entries, query_id) ==
    LET found == {k \in 1..Len(entries) : entries[k].id = query_id}
    IN  IF found = {} THEN [ret |-> FALSE, entries |-> entries]
        ELSE [ret |-> TRUE, entries |-> pop(entries, Min(found))]

InitHistory ==
    /\ history = [i \in Instances |-> Down]
    /\ history_file = NoFile
    /\ hlast = NoValue
    /\ issued = [next |-> 1, removed |-> {}]
    /\ ValidatorIdle
    /\ NormalizerIdle
    /\ ExecutorIdle
    /\ PipelineIdle
    /\ JoinIdle
    /\ GeneratorIdle

\* a process starts: QueryHistory() (lines 14-17)
StartInstance(i) ==
    /\ ~ history[i].up
    /\ history' = [history EXCEPT ![i] = Up(_load_history(history_file))]
    /\ hlast' = Returned("__init__", i, << >>, << >>)
    /\ UNCHANGED << history_file, issued >>
    /\ UNCHANGED << vvars, nvars, xvars, pvars, jvars, gvars >>

\* add_query (lines 65-83); uuid.uuid4() gives an identifier no earlier call
\* gave; a successful query is recorded with the shape of its result
HistoryAdd(i, now, success) ==
    /\ history[i].up
    /\ issued.next <= MaxEntries
    /\ LET entry == Entry(issued.next, now, success,
                          IF success THEN ShapeTuple ELSE None)
           entries == Append(history[i].entries, entry)
       IN  /\ history' = [history EXCEPT ![i] = Up(entries)]
           /\ history_file' = _save_history(entries)
           /\ hlast' = Returned("add_query", i, << >>, entry.id)
    /\ issued' = [issued EXCEPT !.next = @ + 1]
    /\ UNCHANGED << vvars, nvars, xvars, pvars, jvars, gvars >>

\* delete_query (lines 211-216)
HistoryDelete(i, query_id) ==
    /\ history[i].up
    /\ LET d == delete_query(history[i].entries, query_id)
       IN  /\ history' = [history EXCEPT ![i] = Up(d.entries)]
           /\ history_file' = IF d.ret THEN _save_history(d.entries)
                              ELSE history_file
           /\ hlast' = Returned("delete_query", i, query_id, d.ret)
           /\ issued' = IF d.ret
                          THEN [issued EXCEPT !.removed = @ \cup {query_id}]
                          ELSE issued
    /\ UNCHANGED << vvars, nvars, xvars, pvars, jvars, gvars >>

\* clear_history (lines 196-199)
HistoryClear(i) ==
    /\ history[i].up
    /\ history' = [history EXCEPT ![i] = Up(<< >>)]
    /\ history_file' = _save_history(<< >>)
    /\ hlast' = Returned("clear_history", i, << >>, << >>)
    /\ issued' = [issued EXCEPT !.removed = 1..(issued.next - 1)]
    /\ UNCHANGED << vvars, nvars, xvars, pvars, jvars, gvars >>

\* get_recent_queries(limit, success_only)
HistoryRecent(i, limit, success_only) ==
    /\ history[i].up
    /\ hlast' = Returned("get_recent_queries", i,
                         [limit |-> limit, success_only |-> success_only],
                         get_recent_queries(history[i].entries, limit, success_only))
    /\ UNCHANGED << history, history_file, issued >>
    /\ UNCHANGED << vvars, nvars, xvars, pvars, jvars, gvars >>

\* get_query_by_id(query_id)
HistoryGet(i, query_id) ==
    /\ history[i].up
    /\ hlast' = Returned("get_query_by_id", i, query_id,
                         get_query_by_id(history[i].entries, query_id))
    /\ UNCHANGED << history, history_file, issued >>
    /\ UNCHANGED << vvars, nvars, xvars, pvars, jvars, gvars >>

NextHistory ==
    \/ \E i \in Instances : StartInstance(i)
    \/ \E i \in Instances, now \in Clock, success \in BOOLEAN :
          HistoryAdd(i, now, success)
    \/ \E i \in Instances, query_id \in 1..MaxEntries : HistoryDelete(i, query_id)
    \/ \E i \in Instances : HistoryClear(i)
    \/ \E i \in Instances, limit \in 1..MaxEntries, success_only \in BOOLEAN :
          HistoryRecent(i, limit, success_only)
    \/ \E i \in Instances, query_id \in 1..MaxEntries : HistoryGet(i, query_id)

SpecHistory == InitHistory /\ [][NextHistory]_vars

(***************************************************************************)
(* Claims                                                                  *)
(***************************************************************************)
\* t contains keyword kw at offset i, compared character by character
\* without regard to case
OccursIgnoringCase(t, kw, i) ==
    /\ i + Len(kw) <= Len(t)
    /\ \A k \in 1..Len(kw) : LowerChar(t[i + k]) = LowerChar(kw[k])

HasForbiddenSubstring(t) ==
    \E n \in 1..Len(forbidden_keywords) : \E i \in 0..Len(t) :
        OccursIgnoringCase(t, forbidden_keywords[n], i)

\* C1: every source text that contains a denylist entry, in any letter case
\* and at any position, makes validate raise its forbidden-operation error;
\* the text is never returned.
C1_ForbiddenAlwaysRejected ==
    (vres # NoValue /\ HasForbiddenSubstring(src_text)) =>
        /\ vres.raised
        /\ vres.error = "Forbidden operation"
        /\ vres.returned # src_text

\* C1 witness: an upper-case keyword used as a column name inside a string
\* subscript has been validated and rejected.
C1_Witness ==
    /\ vres # NoValue
    /\ src_text = <<"d","f","[","'">> \o <<"O","P","E","N">> \o <<"'","]">>
    /\ vres.raised

\* the normalized cell the payload holds for source cell (i, j) of a
\* table-shaped result
PayloadCell(i, j) == nenv.result.records[i][nres.table.columns[j]]

\* C8: a table-shaped result of more than 10,000 rows is reported truncated
\* and its payload is exactly the first 10,000 rows in order; one of up to
\* 10,000 rows is reported untruncated with all its rows.
C8_Truncation ==
    (nenv # NoValue /\ nres.kind = "DataFrame") =>
        LET rows == nres.table.rows
            n    == Len(rows)
            kept == IF n > 10000 THEN 10000 ELSE n
        IN  /\ nenv.truncated = (n > 10000)
            /\ Len(nenv.result.records) = kept
            /\ nenv.shape[1] = kept
            /\ \A i \in 1..kept : \A j \in 1..Len(rows[i]) :
                   IsNum(rows[i][j]) => PayloadCell(i, j) = rows[i][j]

\* C8 witness: a result of 10,001 rows has been normalized and cut to the cap.
C8_Witness ==
    /\ nenv # NoValue
    /\ nres.kind = "DataFrame"
    /\ Len(nres.table.rows) = 10001
    /\ nenv.truncated
    /\ Len(nenv.result.records) = 10000

\* C9: in a table-shaped or single-column result every cell of a numeric
\* column holding +infinity, -infinity or a missing value is the null marker
\* in the payload, and every cell holding none of these keeps its value at
\* its position.
C9_NonFiniteToNull ==
    /\ (nenv # NoValue /\ nres.kind = "DataFrame") =>
          LET rows == nres.table.rows
          IN  \A i \in 1..Len(nenv.result.records) : \A j \in 1..Len(rows[i]) :
                 /\ (Dtype(rows, j) # "object"
                        /\ rows[i][j] \in {PosInf, NegInf, NaN, None})
                      => PayloadCell(i, j) = None
                 /\ rows[i][j] \notin {PosInf, NegInf, NaN, None}
                      => PayloadCell(i, j) = rows[i][j]
    /\ (nenv # NoValue /\ nres.kind = "Series") =>
          LET col == [i \in 1..Len(nres.values) |-> << nres.values[i] >>]
          IN  \A i \in 1..Len(nres.values) :
                 /\ (Dtype(col, 1) # "object"
                        /\ nres.values[i] \in {PosInf, NegInf, NaN, None})
                      => nenv.result.mapping[i - 1] = None
                 /\ nres.values[i] \notin {PosInf, NegInf, NaN, None}
                      => nenv.result.mapping[i - 1] = nres.values[i]

\* C10: every numeric scalar result, of a builtin or of a library numeric
\* type, is classified scalar, its payload the plain number (null when a
\* non-finite float) and its type tag kept; it is never classified other.
C10_NumericScalarIsScalar ==
    (nenv # NoValue /\ nres.kind = "object"
        /\ nres.pytype \in PlainNumericTypes \cup LibraryNumericTypes) =>
        /\ nenv.result_type = "scalar"
        /\ nenv.value_type = nres.pytype
        /\ nenv.result = IF nres.val \in {NaN, PosInf, NegInf}
                           THEN None ELSE nres.val
(***************************************************************************)
(* C2: on every request path (query, export, process_batch,                *)
(* execute_pipeline) each call of execute comes directly after a call of   *)
(* validate for the same query that returned normally, and is given the    *)
(* very text that call returned; once validate has raised for a query, no  *)
(* call of execute is made for it.                                         *)
(***************************************************************************)
C2_ExecuteOnlyValidated ==
    /\ \A k \in 1..Len(calls) :
          calls[k].op = "execute_query_code" =>
              /\ k > 1
              /\ calls[k - 1].op = "validate_and_enhance_code"
              /\ calls[k - 1].ok
              /\ calls[k - 1].ret = calls[k].arg
              /\ ~ validate_and_enhance_code(calls[k].arg).raised
    /\ \A k \in 1..Len(calls) :
          (calls[k].op = "validate_and_enhance_code" /\ ~ calls[k].ok) =>
              /\ \A m \in 1..Len(calls) : calls[m].op # "execute_query_code"
              /\ run.pc # "execute"

\* a batch whose first query failed and whose second query has been
\* validated and then executed on the validated text
C2_Witness ==
    /\ run.path = "batch"
    /\ Len(run.results) = 2
    /\ ~ run.results[1].success
    /\ run.results[2].success
    /\ Len(calls) = 3
    /\ calls[3].op = "execute_query_code"
    /\ calls[2].ok


\* C3: execute never changes the caller's Table: whatever the code did to
\* its df binding, and whether it succeeded, raised or left result unset,
\* the Table the caller passed has the columns, rows and values it had
\* before the call.
C3_CallerTableUnchanged ==
    /\ last # NoValue =>
          /\ last.out.caller_df = last.df
          /\ tbl = last.df
    /\ again # NoValue => again.out.caller_df = again.df

\* C3 witness: code changed the table bound to df and then raised, and the
\* call has returned.
C3_Witness ==
    /\ last # NoValue
    /\ \E i \in 1..Len(last.code) : last.code[i] \in MutatesDf
    /\ last.out.namespace_df # last.df
    /\ last.out.raised = "ZeroDivisionError"
    /\ last.out.returned

\* C4: the envelope an invocation returns depends only on its own Table and
\* code: it is the envelope the same call returns in a process where no
\* other generated code has run.
C4_NoInterference ==
    (last # NoValue /\ last.out.returned) =>
        last.out.envelope = execute_query_code(last.df, last.code, FreshLib).envelope

\* no line of the code is an assignment to result
NeverAssignsResult(code) ==
    \A i \in 1..Len(code) : code[i] \notin AssignsResult \cup {"syntax"}

C6_RaiseBecomesEnvelope ==
    (last # NoValue /\ last.out.raised # "none") =>
        /\ last.out.returned
        /\ last.out.envelope.success = FALSE
        /\ last.out.envelope.result = None
        /\ last.out.raised \in Range(last.out.envelope.error)
        /\ "Traceback (most recent call last):" \in Range(last.out.envelope.error)

\* C7: the same validated code executed twice, each time against a copy of
\* the same Table, returns identical envelopes.
C7_Idempotent ==
    (again # NoValue /\ ~ validate_and_enhance_code(Text(last.code)).raised) =>
        /\ again.df = last.df
        /\ again.out.envelope = last.out.envelope

(***************************************************************************)
(* C11: every envelope returned with success=true carries a JSON-safe      *)
(* payload, whatever the kind of the result: no NaN, +infinity or          *)
(* -infinity and no table or column object anywhere in the payload, the    *)
(* items of mapping and sequence results included.                         *)
(***************************************************************************)
NonFinite == {NaN, PosInf, NegInf}

\* a payload item that JSON can carry: a finite number, a string or null
JsonSafeItem(c) ==
    /\ c \notin NonFinite
    /\ "kind" \notin DOMAIN c

JsonSafe(payload) ==
    IF "records" \in DOMAIN payload THEN
        \A i \in 1..Len(payload.records) :
            \A c \in DOMAIN payload.records[i] : JsonSafeItem(payload.records[i][c])
    ELSE IF "mapping" \in DOMAIN payload THEN
        \A k \in DOMAIN payload.mapping : JsonSafeItem(payload.mapping[k])
    ELSE IF "dict" \in DOMAIN payload THEN
        \A k \in DOMAIN payload.dict : JsonSafeItem(payload.dict[k])
    ELSE IF "list" \in DOMAIN payload THEN
        \A k \in DOMAIN payload.list : JsonSafeItem(payload.list[k])
    ELSE IF "text" \in DOMAIN payload THEN TRUE
    ELSE JsonSafeItem(payload)

C11_JsonSafePayload ==
    (nenv # NoValue /\ nenv.success) => JsonSafe(nenv.result)

\* the part of C11 about mapping and sequence results alone
C11_PassThroughJsonSafe ==
    (nenv # NoValue /\ nenv.success /\ nenv.result_type \in {"dict", "list"}) =>
        JsonSafe(nenv.result)

(***************************************************************************)
(* C12: a result that is no table, column, scalar, mapping or sequence is  *)
(* returned as an other-result carrying its string form; when producing    *)
(* the string form fails, the outcome is a failure that says the value     *)
(* could not be normalized and names its type: not a success envelope and  *)
(* not a failure reported as an error of the execution of the code.        *)
(***************************************************************************)
\* the value the code of the last invocation left bound to `result`
LastResult == ResultOf(exec(last.code, Namespace(last.df, last.pd)).ns)

\* the last invocation ran to completion and bound an other-typed value
LastResultIsOther ==
    /\ last # NoValue
    /\ last.out.raised = "none"
    /\ LastResult.kind = "object"
    /\ LastResult # NoneValue
    /\ ~ IsPlainScalar(LastResult.pytype)
    /\ LastResult.pytype \notin LibraryNumericTypes

C12_OtherCarriesString ==
    (LastResultIsOther /\ ~ StrRaises(LastResult)) =>
        /\ last.out.envelope.success
        /\ last.out.envelope.result_type = "other"
        /\ last.out.envelope.result = [text |-> LastResult.val]

C12_OtherOrNormalizationFailure ==
    /\ C12_OtherCarriesString
    /\ (LastResultIsOther /\ StrRaises(LastResult)) =>
          /\ last.out.returned
          /\ ~ last.out.envelope.success
          /\ LastResult.pytype \in Range(last.out.envelope.error)
          /\ "Execution error: " \notin Range(last.out.envelope.error)

(***************************************************************************)
(* C13: validate accepts an import or from-import line if and only if      *)
(* every module the line imports is in the allow-list (pandas, numpy,      *)
(* datetime): a text with a line importing a module outside the allow-list *)
(* is rejected, and a text whose import lines name allow-listed modules    *)
(* only is not rejected by the import rule.                                *)
(***************************************************************************)
AllowedModules == {"pandas", "numpy", "datetime"}

\* src_text is one of the import texts
IsImportText == src_text \in ImportTexts

\* the modules the import line of src_text imports
ImportedModules ==
    (CHOOSE l \in ImportLines :
        \E ind \in Indents, t \in Tails : src_text = ind \o l.text \o t).modules

RejectedByImportRule == vres.raised /\ vres.error = "Unauthorized import"

\* a line importing a module outside the allow-list is rejected
C13_OutsideAllowListRejected ==
    (vres # NoValue /\ IsImportText /\ ~ (ImportedModules \subseteq AllowedModules)) =>
        vres.raised

\* a line importing allow-listed modules only is not rejected by the import
\* rule
C13_AllowListedAccepted ==
    (vres # NoValue /\ IsImportText /\ ImportedModules \subseteq AllowedModules) =>
        ~ RejectedByImportRule

C13_ImportAllowListIff ==
    (vres # NoValue /\ IsImportText) =>
        (RejectedByImportRule <=> ~ (ImportedModules \subseteq AllowedModules))

(***************************************************************************)
(* C14: without explicit keys, two tables whose only common column is `id` *)
(* are joined on `id` and analyze_join_potential recommends ["id"]; two    *)
(* tables with no common column make smart_join fail with a join error,    *)
(* no table returned, and make analyze_join_potential report empty shared  *)
(* and recommended lists.                                                  *)
(***************************************************************************)
AutoJoin == jout # NoValue /\ jout.op = "smart_join" /\ jout.join_columns = NoKeys
Analysis == jout # NoValue /\ jout.op = "analyze_join_potential"
OnlyIdCommon == CommonColumns(jin.df1, jin.df2) = {"id"}
NothingCommon == CommonColumns(jin.df1, jin.df2) = {}

\* the part of C14 about smart_join
C14_SmartJoinOnId ==
    /\ (AutoJoin /\ OnlyIdCommon) =>
          /\ ~ jout.out.raised
          /\ jout.out.on = << "id" >>
          /\ jout.out.result = merge(jin.df1, jin.df2, << "id" >>, jout.how).table
    /\ (AutoJoin /\ NothingCommon) =>
          /\ jout.out.raised
          /\ jout.out.result = NoValue
          /\ ~ jout.out.merged
          /\ jout.out.error[1] = "Could not auto-detect join columns. "

C14_JoinOnIdOrFail ==
    /\ C14_SmartJoinOnId
    /\ (Analysis /\ OnlyIdCommon) =>
          /\ jout.out.raised = "none"
          /\ jout.out.recommended_join_columns = << "id" >>
    /\ (Analysis /\ NothingCommon) =>
          /\ jout.out.raised = "none"
          /\ jout.out.common_columns = << >>
          /\ jout.out.recommended_join_columns = << >>

(***************************************************************************)
(* C15: the recommended join key is a function of the two column lists:    *)
(* the first, in declared column order, of the shared names containing one *)
(* of the keywords id, key, code, number; when no shared name contains     *)
(* one, the first shared name in declared column order.                    *)
(***************************************************************************)
ClaimedKeywords ==
    << <<"i","d">>, <<"k","e","y">>, <<"c","o","d","e">>,
       <<"n","u","m","b","e","r">> >>

HasClaimedKeyword(col) ==
    \E k \in 1..Len(ClaimedKeywords) :
        Contains(lower(NameChars(col)), ClaimedKeywords[k])

\* the key C15 describes, the shared names taken in the order of `columns`
DeclaredOrderKey(columns, shared) ==
    LET inorder  == SelectSeq(columns, LAMBDA c : c \in shared)
        preferred == SelectSeq(inorder, HasClaimedKeyword)
    IN  IF inorder = << >> THEN << >>
        ELSE IF preferred # << >> THEN SubSeq(preferred, 1, 1)
        ELSE SubSeq(inorder, 1, 1)

\* the key the planner detected in the call made
DetectedKey ==
    IF jout.op = "smart_join" THEN jout.out.on
    ELSE jout.out.recommended_join_columns

Detected ==
    \/ AutoJoin /\ ~ jout.out.raised
    \/ Analysis /\ jout.out.raised = "none"

C15_KeyByDeclaredOrder ==
    Detected =>
        LET shared == CommonColumns(jin.df1, jin.df2)
        IN  DetectedKey \in {DeclaredOrderKey(jin.df1.columns, shared),
                             DeclaredOrderKey(jin.df2.columns, shared)}

\* the part of C15 about determinism: no other order of the common names
\* gives another key
C15_SameTablesSameKey ==
    Detected =>
        \A order \in Orders(jin.df1, jin.df2) :
            _detect_join_columns(jin.df1, jin.df2, order) = DetectedKey

(***************************************************************************)
(* C16: given explicit key columns, smart_join checks every key against    *)
(* both tables before merging: when a key is missing from the first or the *)
(* second table it fails with a join error naming that column and the      *)
(* table it is missing from, performs no merge and leaves both input       *)
(* tables unchanged.                                                       *)
(***************************************************************************)
ExplicitJoin == jout # NoValue /\ jout.op = "smart_join" /\ jout.join_columns # NoKeys

MissingFrom(df) == {c \in Range(jout.join_columns) : c \notin Range(df.columns)}

C16_MissingKeyIsJoinError ==
    (ExplicitJoin /\ MissingFrom(jin.df1) \cup MissingFrom(jin.df2) # {}) =>
        /\ jout.out.raised
        /\ ~ jout.out.merged
        /\ jout.out.result = NoValue
        /\ \/ /\ jout.out.error[2] \in MissingFrom(jin.df1)
              /\ jout.out.error[4] = "first dataset"
           \/ /\ jout.out.error[2] \in MissingFrom(jin.df2)
              /\ jout.out.error[4] = "second dataset"
        /\ jout.df1 = jin.df1
        /\ jout.df2 = jin.df2

\* keys ["id", "value"] where the first table has both and the second lacks
\* "value": the join failed naming "value" and the second dataset
C16_Witness ==
    /\ ExplicitJoin
    /\ jout.join_columns = << "id", "value" >>
    /\ MissingFrom(jin.df1) = {}
    /\ MissingFrom(jin.df2) = {"value"}
    /\ jout.out.raised
    /\ jout.out.error = << "Column '", "value", "' not found in ", "second dataset" >>

(***************************************************************************)
(* C17: generate_pandas_code reports a connection failure to the backend,  *)
(* a backend timeout and a malformed (non-JSON) backend response as three  *)
(* failure reasons that can be told apart in the returned result, each     *)
(* with success=false and no code; none of the three leaves the call as an *)
(* exception.                                                              *)
(***************************************************************************)
\* the answer that decided the call: the one to the last request sent
Deciding(g, out) == g.answers[out.sent]

\* which of the three failures an answer is, "none" for any other answer
FailureReason(a) ==
    CASE a = ConnectionError -> "connection"
      [] a = Timeout -> "timeout"
      [] a \in {BodyNotJson, Reply(NotJson)} -> "malformed"
      [] OTHER -> "none"

C17_ThreeFailureReasons ==
    (gout # NoValue /\ FailureReason(Deciding(gin, gout)) # "none") =>
        /\ gout.result.success = FALSE
        /\ gout.result.code = NoProgram
        /\ gout.result.error # NoError
        /\ \A g \in GenerateInputs :
              LET other == generate_pandas_code(g.mode, g.answers)
              IN  (/\ g.mode = gin.mode
                   /\ FailureReason(Deciding(g, other)) # "none"
                   /\ FailureReason(Deciding(g, other))
                        # FailureReason(Deciding(gin, gout)))
                  => other.result.error # gout.result.error

\* the Ollama backend did not answer in time and the call returned the
\* failure that says so
C17_Witness ==
    /\ gout # NoValue
    /\ gin.mode = "ollama"
    /\ gin.answers[1] = Timeout
    /\ gout.result.success = FALSE
    /\ gout.result.error =
          << "LLM error: ", "Ollama request timed out. Query might be too complex." >>

(***************************************************************************)
(* C18: whenever generate_pandas_code returns success=true its `code` is a *)
(* non-empty source text; an answer that is well-formed JSON but has no    *)
(* `code` field, or whose `code` is empty or null, yields a generation     *)
(* failure (success=false), and the request path then records a failed     *)
(* query instead of failing in a later stage.                              *)
(***************************************************************************)
C18_SuccessHasCode ==
    gout # NoValue =>
        /\ gout.result.success => gout.result.code \notin {AbsentCode, NoProgram, << >>}
        /\ LET a == Deciding(gin, gout)
           IN  (a.kind = "reply" /\ a.content.json
                   /\ a.content.code \in {AbsentCode, NoProgram, << >>})
               => gout.result.success = FALSE

\* the part of C18 about an answer without a `code` field
C18_AbsentCodeIsFailure ==
    gout # NoValue =>
        LET a == Deciding(gin, gout)
        IN  (a.kind = "reply" /\ a.content.json /\ a.content.code = AbsentCode)
            => (gout.result.success = FALSE /\ gout.result.code = NoProgram)

\* the part of C18 about the request paths: a query whose generated code is
\* null is not handled by the catch-all error response of a later stage
C18_NullCodeNotLaterStage ==
    ~ (run.pc = "done" /\ run.response = "500 handle_error"
         /\ Len(calls) = 2 /\ calls[1].ok /\ calls[2].arg = << >>
         /\ calls[2].op = "validate_and_enhance_code")

(***************************************************************************)
(* C19: one call of generate_pandas_code sends at most one request to the  *)
(* generation backend, whatever the request ends in (an answer, a          *)
(* connection failure, a timeout, a malformed answer).                     *)
(***************************************************************************)
C19_AtMostOneRequest == gout # NoValue => gout.sent <= 1

\* the part of C19 about the Ollama backend: requests.post is called once
C19_OllamaSendsOne ==
    (gout # NoValue /\ gin.mode = "ollama") => gout.sent = 1

\* the part of C19 about the request paths: within one query no stage is
\* called a second time, and nothing is called after a stage that failed
\* but the recording of the failure
C19_NoStageRepeated ==
    /\ \A k, m \in 1..Len(calls) : (k # m) => calls[k].op # calls[m].op
    /\ \A k \in 1..Len(calls) :
          (~ calls[k].ok /\ calls[k].op # "add_query") =>
              \A m \in (k + 1)..Len(calls) : calls[m].op = "add_query"

\* the history entries appended for the query being handled
Entries == {k \in 1..Len(calls) : calls[k].op = "add_query"}

\* the error text of the stage that failed, as the stage gave it
StageError(k) ==
    CASE calls[k].op = "generate_pandas_code" -> calls[k].ret
      [] calls[k].op = "validate_and_enhance_code" ->
           str_e(validate_and_enhance_code(calls[k].arg))
      [] OTHER -> calls[k].ret

\* the entry at position k is the one the claim describes for the call
\* before it
FaithfulEntry(k) ==
    /\ k > 1
    /\ IF run.response = "200 success"
         THEN /\ calls[k].ok
              /\ calls[k - 1].op = "execute_query_code"
              /\ calls[k].ret = calls[k - 1].ret
              /\ calls[k].ret # << "error" >>
         ELSE /\ ~ calls[k].ok
              /\ calls[k].arg # NoError
              /\ calls[k].arg = StageError(k - 1)

(***************************************************************************)
(* C20: every attempt of POST /query appends exactly one history entry:    *)
(* with success=true and the envelope's result kind when the query         *)
(* succeeds, with success=false and the failing stage's error text,        *)
(* unaltered, when loading, generation, validation or execution fails; no  *)
(* attempt ends without an entry and none appends two.                     *)
(***************************************************************************)
C20_OneEntryPerAttempt ==
    (run # NoValue /\ run.pc = "done" /\ run.path = "query") =>
        /\ Cardinality(Entries) = 1
        /\ \A k \in Entries : FaithfulEntry(k)

\* the part of C20 about the entries that are appended: never two for one
\* attempt, and each as the claim describes it
C20_EntriesFaithful ==
    (run # NoValue /\ run.pc = "done" /\ run.path = "query") =>
        /\ Cardinality(Entries) <= 1
        /\ \A k \in Entries : FaithfulEntry(k)

\* the part of C20 about an attempt that got as far as a stage returning:
\* a generation failure, a validation ValueError, an execution envelope
C20_ReturnedStageRecorded ==
    (run # NoValue /\ run.pc = "done" /\ run.path = "query"
       /\ run.response \in {"200 success", "500 Code generation failed",
                             "400 Code validation failed", "500 Execution failed"})
        => Cardinality(Entries) = 1

\* the text refers to the output binding
ReferencesResult == Contains(src_text, kw_result)

OtherModules ==
    { <<"j","s","o","n">>, <<"r","e","q","u","e","s","t","s">>,
      <<"p","i","c","k","l","e">>, <<"m","a","r","s","h","a","l">> }

\* src_text is `import m` followed by an assignment to result
ImportsOnly(m) ==
    src_text = kw_import \o m \o <<"\n","r","e","s","u","l","t"," ","="," ","1">>

(***************************************************************************)
(* C27: a text whose only defect is an import line for a module outside    *)
(* the allow-list that is no OS or process module, such as `import         *)
(* requests` followed by an assignment to result, is rejected with an      *)
(* error that names an unauthorized import.                                *)
(***************************************************************************)
C27_NamesUnauthorizedImport ==
    (vres # NoValue /\ \E m \in OtherModules : ImportsOnly(m)) =>
        (vres.raised /\ vres.error = "Unauthorized import")

\* the part of C27 that holds: such a text is rejected, and `import json`
\* is rejected as an unauthorized import
C27_Rejected ==
    (vres # NoValue /\ \E m \in OtherModules : ImportsOnly(m)) =>
        /\ vres.raised
        /\ ImportsOnly(<<"j","s","o","n">>) => vres.error = "Unauthorized import"

\* the identifiers of a list of entries, in order
Ids(entries) == [k \in 1..Len(entries) |-> entries[k].id]

\* no identifier occurs twice in the list
DistinctIds(entries) ==
    \A k, m \in 1..Len(entries) : (k # m) => entries[k].id # entries[m].id

Surviving == (1..(issued.next - 1)) \ issued.removed

\* how many entries of the list carry the identifier
Occurrences(entries, id) ==
    Cardinality({k \in 1..Len(entries) : entries[k].id = id})

(***************************************************************************)
(* C22: appends by several writers of the log are safe: when instances     *)
(* of the history service that share the log file have each called         *)
(* add_query and the calls have returned, the persisted log holds every    *)
(* appended entry exactly once; no append is lost or overwritten.          *)
(***************************************************************************)
C22_NoAppendLost ==
    issued # NoValue =>
        \A id \in Surviving : Occurrences(history_file.content, id) = 1

\* the part of C22 that holds: with one writer, the other process not
\* started, every appended entry is in the persisted log once
C22_OneWriter ==
    (issued # NoValue /\ \E i \in Instances : ~ history[i].up) =>
        \A id \in Surviving : Occurrences(history_file.content, id) = 1

\* every entry of `before` is in `after`, with the same field values and in
\* the same relative order
Kept(before, after) ==
    SelectSeq(after, LAMBDA e : e \in Range(before)) = before

\* the entries of the list but the one with the identifier
Without(entries, id) == SelectSeq(entries, LAMBDA e : e.id # id)

\* what a step may remove from a log: everything (clear_history), the entry
\* with the identifier given (delete_query), nothing (every other call)
MayRemain(entries, op, arg) ==
    CASE op = "clear_history" -> << >>
      [] op = "delete_query" -> Without(entries, arg)
      [] OTHER -> entries

(***************************************************************************)
(* C21: the history log is append-only: an entry that was recorded keeps   *)
(* its field values and its position relative to the other surviving       *)
(* entries, and leaves the log, in memory and in the persisted file, only  *)
(* through clear_history or through delete_query with its identifier;      *)
(* add_query, the read operations and loading the log at start-up never    *)
(* remove or change an entry.                                              *)
(***************************************************************************)
C21_AppendOnly ==
    [][ /\ Kept(MayRemain(history_file.content, hlast'.op, hlast'.arg),
                history_file'.content)
        /\ \A i \in Instances :
              Kept(MayRemain(history[i].entries, hlast'.op, hlast'.arg),
                   history'[i].entries) ]_vars

\* the part of C21 about the log in memory
C21_MemoryAppendOnly ==
    [][ \A i \in Instances :
          Kept(MayRemain(history[i].entries, hlast'.op, hlast'.arg),
               history'[i].entries) ]_vars

\* the part of C21 about the persisted log when one process writes it
C21_OneWriterAppendOnly ==
    [][ (\E i \in Instances : ~ history'[i].up) =>
          Kept(MayRemain(history_file.content, hlast'.op, hlast'.arg),
               history_file'.content) ]_vars

\* the entries get_recent_queries chooses from, for the call that has just
\* returned
Eligible ==
    IF hlast.arg.success_only
      THEN SelectSeq(history[hlast.inst].entries, LAMBDA e : e.success)
      ELSE history[hlast.inst].entries

\* the call returned min(limit, number of eligible entries) entries, all of
\* them eligible
RightCount ==
    /\ Len(hlast.ret) = Min({hlast.arg.limit, Len(Eligible)})
    /\ \A p \in 1..Len(hlast.ret) : hlast.ret[p] \in Range(Eligible)

(***************************************************************************)
(* C24: get_recent_queries(limit, success_only) returns exactly            *)
(* min(limit, number of eligible entries) entries, the eligible entries    *)
(* being all entries, or those with success=true when success_only is      *)
(* set, most recent first: of any two entries returned, the one added      *)
(* later comes earlier in the list.  add_query issues the identifiers of   *)
(* the model in increasing order, so the entry added later is the one      *)
(* with the larger identifier.                                             *)
(***************************************************************************)
C24_MostRecentFirst ==
    (hlast # NoValue /\ hlast.op = "get_recent_queries") =>
        /\ RightCount
        /\ \A p, q \in 1..Len(hlast.ret) :
              (p < q) => hlast.ret[p].id > hlast.ret[q].id

\* the part of C24 that holds: the count, the filter, and the order of the
\* timestamps
C24_CountAndTimestampOrder ==
    (hlast # NoValue /\ hlast.op = "get_recent_queries") =>
        /\ RightCount
        /\ \A p, q \in 1..Len(hlast.ret) :
              (p < q) => hlast.ret[p].timestamp >= hlast.ret[q].timestamp

\* the call that has just returned wrote the file
Wrote ==
    /\ hlast # NoValue
    /\ \/ hlast.op \in {"add_query", "clear_history"}
       \/ hlast.op = "delete_query" /\ hlast.ret = TRUE

(***************************************************************************)
(* C29: after any sequence of add_query, delete_query and clear_history    *)
(* calls, the persisted log equals the log in memory, and a fresh          *)
(* instance that loads the file holds the same entries, in the same order  *)
(* and with the same field values, as the instance that wrote them.        *)
(***************************************************************************)
C29_LoadsWhatWasWritten ==
    Wrote => _load_history(history_file) = history[hlast.inst].entries

\* the part of C29 that holds: the file is the JSON form of the list in
\* memory, and a fresh instance holds entries of the same identifiers,
\* timestamps and success flags in the same order
C29_SameEntriesAsJson ==
    Wrote =>
        LET loaded == _load_history(history_file)
            mine   == history[hlast.inst].entries
        IN  /\ history_file.content = json_dump(mine)
            /\ Len(loaded) = Len(mine)
            /\ \A k \in 1..Len(mine) :
                  /\ loaded[k].id = mine[k].id
                  /\ loaded[k].timestamp = mine[k].timestamp
                  /\ loaded[k].success = mine[k].success

\* process_batch is being handled
InBatch == run # NoValue /\ run.path = "batch"

\* the results recorded so far are those of the queries before the current
\* one, one each and in list order
OneResultEach ==
    /\ Len(run.results) <= Len(run.queries)
    /\ \A k \in 1..Len(run.results) : run.results[k].query_index = k - 1

\* the table the result of the code about to run turns into: the columns
\* and the rows of the DataFrame bound to result
ResultTable ==
    LET out == execute_query_code(run.current_df, run.code, lib)
    IN  [columns |-> out.envelope.columns,
         rows    |-> [k \in 1..out.envelope.shape[1] |->
                        [j \in 1..Len(out.envelope.columns) |->
                            out.envelope.result.records[k][out.envelope.columns[j]]]]]

(***************************************************************************)
(* C30: process_batch handles the queries in list order and records at     *)
(* most one result per query.  Without chaining every query runs on the    *)
(* original table and gets exactly one result, whatever earlier queries    *)
(* did.  With chaining the batch stops at the first query that fails, no   *)
(* later query is attempted, and each query runs on the table of the most  *)
(* recent earlier table-shaped result.  The caller's table is never        *)
(* modified.                                                               *)
(***************************************************************************)
C30_BatchInOrder ==
    /\ [] (InBatch =>
             /\ OneResultEach
             /\ run.pc # "done" => Len(run.results) = run.i
             /\ (~ run.chain) => run.current_df = run.df
             /\ (~ run.chain /\ run.pc = "done") =>
                   Len(run.results) = Len(run.queries)
             /\ run.chain =>
                   \A k \in 1..Len(run.results) :
                      (~ run.results[k].success) =>
                          (k = Len(run.results) /\ run.pc = "done"))
    /\ [][ (InBatch /\ run.chain /\ run.pc = "execute"
             /\ Len(run'.results) > Len(run.results)
             /\ run'.results[Len(run'.results)].success
             /\ run'.pc = "generate")
           => run'.current_df =
                IF run'.results[Len(run'.results)].chained
                  THEN ResultTable ELSE run.current_df ]_vars

\* the part of C30 that holds: everything but the table a chain goes on with
C30_OrderAndStop ==
    InBatch =>
        /\ OneResultEach
        /\ run.pc # "done" => Len(run.results) = run.i
        /\ (~ run.chain) => run.current_df = run.df
        /\ (~ run.chain /\ run.pc = "done") =>
              Len(run.results) = Len(run.queries)
        /\ run.chain =>
              \A k \in 1..Len(run.results) :
                 (~ run.results[k].success) =>
                     (k = Len(run.results) /\ run.pc = "done")

\* a route handler is past its loading of the file: generation, validation
\* or execution is next
PastLoad(path) ==
    run.path = path /\ run.pc \in {"generate", "validate", "execute"}

\* C23: a file that is absent, cannot be parsed or gives a table without rows
\* never gets a handler past its load: whenever a route is about to generate,
\* validate or execute, the table it loaded has at least one row
C23_NoEmptyTablePastLoad ==
    (PastLoad("query") \/ PastLoad("export")) => Len(run.df.rows) > 0

\* the part of C23 that holds: POST /query never goes on with an empty table,
\* and neither route goes on without a table
C23_QueryNeverEmpty ==
    /\ PastLoad("query") => ~ IsEmpty(run.df)
    /\ (PastLoad("query") \/ PastLoad("export")) => run.df \in PipeTables
    /\ (run.pc = "done" /\ run.response = "404 File not found")
          => run.df = NoTable

\* the code of the query at hand has been generated from run.df_info and is
\* to be validated, or to be executed on run.current_df
Generated == run.pc \in {"validate", "execute"}

\* C28: the digest handed to generation lists the columns of the table the
\* code is executed on, in the same order, and gives its number of rows, on
\* every path and at every query of a batch or pipeline
C28_DigestDescribesTable ==
    Generated =>
        /\ run.df_info.columns = run.current_df.columns
        /\ run.df_info.shape[1] = Len(run.current_df.rows)
        /\ run.df_info.shape[2] = Len(run.current_df.columns)

\* a later query of a chain is about to execute on a table that differs from
\* the caller's in columns or in number of rows
C28_ChainedStep ==
    /\ run.pc = "execute"
    /\ run.path \in {"batch", "pipeline"}
    /\ run.i >= 1
    /\ \/ run.current_df.columns # run.df.columns
       \/ Len(run.current_df.rows) # Len(run.df.rows)
    /\ run.df_info = _extract_dataframe_info(run.current_df)

====
